---- MODULE Spec2Model ----
(***************************************************************************)
(* Model of the typedFetch request pipeline (src/src/main.ts).             *)
(*                                                                         *)
(* One logical call is a chain of suspension points: the synchronous       *)
(* prefix of an attempt (URL resolution, input validation, body encoding,  *)
(* onRequest, fetcher invocation), the settlement of the transport         *)
(* promise, the settlement of getText(), and the retry sleep.  Each        *)
(* action runs the code between two suspension points.                     *)
(*                                                                         *)
(* Callbacks are modelled by their behaviour: "absent", "returns" or       *)
(* "throws".  The transport, the body read, the schemas and the retry      *)
(* condition are nondeterministic per invocation.                          *)
(***************************************************************************)
EXTENDS Integers, Sequences, FiniteSets, TLC

VARIABLES
  options,        \* the options object of the current attempt (retry bookkeeping included)
  pc,             \* position of the call: "init", "awaitingTransport", "readingBody", "sleeping", "done"
  response,       \* the value the fetcher resolved with in the current attempt
  pending,        \* the error and retry number captured by errorResult while it sleeps
  result,         \* settlement of the promise returned to the caller
  calls,          \* number of invocations of the fetcher and of each callback
  failed,         \* per error kind, the number of attempts that failed with it so far
  lastError,      \* the error constructed at the failure point of the latest failed attempt
  onErrorArg,     \* the error instance handed to onError
  lastCondition,  \* what retry.condition returned in the latest retry decision
  nextInst,       \* identity given to the next TypedFetchError instance
  now,            \* Date.now()
  startTimestamp, \* the startTimestamp of the current typedFetch invocation
  callStart,      \* the time at which the caller invoked typedFetch
  abort,          \* the caller's signal and the composed abortSignal of the current attempt
  globalDefaults, \* the process-wide defaults
  bound,          \* the fetcher and logger the current invocation destructured, and the first one's
  seen,           \* what the transport, the body and the schemas did in the current attempt
  ctx,            \* the retry contexts last given to retry.condition and retry.onRetry
  hdr,            \* a TypedFetchError's headers and what its accessors returned
  request,        \* what the current attempt prepared for the fetcher
  trace,          \* the callbacks, the fetcher and the sleeps invoked so far, in order
  callerOptions,  \* the options object the caller holds
  callNo,         \* how many times the caller has invoked typedFetch with it
  devLogId,       \* the process-wide log sequence counter
  logIds          \* the ids passed to loggers in the process, in invocation order

vars == <<options, pc, response, pending, result, calls, failed, lastError,
          onErrorArg, lastCondition, nextInst, now, startTimestamp, callStart,
          abort, globalDefaults, bound, seen, ctx, hdr, request, trace,
          callerOptions, callNo, devLogId, logIds>>

(***************************************************************************)
(* Bounds                                                                  *)
(***************************************************************************)
MaxRetriesBound == 2
MaxTime == 4
MaxHeaderLen == 9
MaxAccessorCalls == 2
MaxCalls == 2
MaxLogId == 3

(***************************************************************************)
(* Values                                                                  *)
(***************************************************************************)
\* `undefined` for the numeric fields (retryAttempt, status, originalMaxRetries)
Undefined == -1

ErrorIds ==
  {"invalid_options", "aborted", "network_or_cors_error", "request_error",
   "hook_cb_error", "invalid_json", "response_validation_error", "timeout",
   "invalid_response"}

\* variant: timeouts are retried by default
DefaultRetryOnErrIdsWithTimeout == {"request_error", "network_or_cors_error", "timeout"}

\* the default of getCanRetryErrorId's retryOnErrIds parameter
DefaultRetryOnErrIds == {"request_error", "network_or_cors_error"}

\* new TypedFetchError({...}): status defaults to 0, url to '?'
TypedFetchError(id, message, status, resp, inst) ==
  [id |-> id,
   message |-> message,
   status |-> IF status = Undefined THEN 0 ELSE status,
   response |-> resp,
   url |-> "?",
   method |-> "undefined",
   cause |-> "undefined",
   schemaIssues |-> "undefined",
   retryAttempt |-> Undefined,
   inst |-> inst]

NoError == TypedFetchError("none", "", Undefined, "undefined", 0)

NoResponse == [status |-> 0, ok |-> FALSE, statusText |-> ""]

Pending == [state |-> "pending", value |-> "undefined", error |-> NoError]
ResultOk(v) == [state |-> "ok", value |-> v, error |-> NoError]
ResultErr(e) == [state |-> "err", value |-> "undefined", error |-> e]
Rejected == [state |-> "rejected", value |-> "undefined", error |-> NoError]

\* nothing has happened yet in the attempt
NoneSeen ==
  [fault |-> "none", status |-> Undefined, text |-> "none",
   respVerdict |-> "none", errVerdict |-> "none"]

\* a retry context that was never built
NoContext == [retryAttempt |-> 0, errorDuration |-> Undefined, error |-> NoError]

\* no AbortSignal has fired and no timeout is armed
NoAbort ==
  [caller |-> FALSE, during |-> "none", reason |-> "none",
   deadline |-> Undefined]

\* nothing has been prepared for the fetcher
NoRequest ==
  [queryApplied |-> FALSE, body |-> "undefined", contentType |-> "none",
   fetchOptions |-> "none", sent |-> "none"]

\* an entry of the trace: what was invoked, the retry number it was given
\* and the maxRetries of the options object it was given
Event(ev, n, left) == [ev |-> ev, n |-> n, left |-> left]

\* let globalDefaults: GlobalDefaults = {}
NoDefaults == [fetcher |-> "undefined", logger |-> "undefined"]

Unbound ==
  [fetcher |-> "unbound", logger |-> "unbound",
   firstFetcher |-> "unbound", firstLogger |-> "unbound"]

NoCalls ==
  [fetcher |-> 0, getText |-> 0, responseIsValid |-> 0, onRequest |-> 0,
   onResponse |-> 0, onError |-> 0, onRetry |-> 0, condition |-> 0,
   delayMs |-> 0, sleep |-> 0]

(***************************************************************************)
(* The transport and the payloads it can produce                           *)
(***************************************************************************)
FaultNames == {"TimeoutError", "AbortError", "TypeError"}

Statuses == {200, 404, 500}

StatusText(status) ==
  CASE status = 200 -> "OK"
    [] status = 404 -> "Not Found"
    [] OTHER -> "Internal Server Error"

\* defaultFetcher: ok is Response.ok, i.e. status in [200, 300)
FetcherResponse(status) ==
  [status |-> status, ok |-> (status >= 200 /\ status < 300),
   statusText |-> StatusText(status)]

BodyTexts == {"{\"a\":1}", "<html>"}

\* resultify(() => JSON.parse(text))
JsonParse(text) ==
  IF text = "{\"a\":1}"
    THEN [ok |-> TRUE, value |-> "Object{a:1}", message |-> ""]
    ELSE [ok |-> FALSE, value |-> "undefined", message |-> "Unexpected token"]

Verdicts == {"value", "issues", "async"}

\* standardResultValidate: a Promise or issues give Err, a value gives Ok
StandardResultValidate(verdict, input) ==
  CASE verdict = "async" ->
         [ok |-> FALSE, value |-> "undefined",
          message |-> "Async validation not supported",
          issues |-> "[{message:Async validation not supported}]"]
    [] verdict = "issues" ->
         [ok |-> FALSE, value |-> "undefined", message |-> "$.a: Invalid",
          issues |-> "[{path:[a],message:Invalid}]"]
    [] OTHER ->
         [ok |-> TRUE, value |-> "Validated{a:1}", message |-> "",
          issues |-> "undefined"]

(***************************************************************************)
(* URL resolution and path shape                                           *)
(***************************************************************************)
\* "URL" stands for a URL object, the others are strings; "" is an absent host
Paths == {"api/users", "/leading", "trailing/", "a//b", "http://x.com/api", "URL"}
Hosts == {"", "http://test.com"}

IsString(pathOrUrl) == pathOrUrl # "URL"

\* resultify(() => typeof pathOrUrl === 'string' ? new URL(pathOrUrl, host) : pathOrUrl)
UrlResolves(pathOrUrl, host) ==
  \/ ~IsString(pathOrUrl)
  \/ pathOrUrl = "http://x.com/api"
  \/ host # ""

StartsOrEndsWithSlash(pathOrUrl) == pathOrUrl \in {"/leading", "trailing/"}
IncludesScheme(pathOrUrl) == pathOrUrl = "http://x.com/api"
PathnameHasDoubleSlash(pathOrUrl) == pathOrUrl = "a//b"

(***************************************************************************)
(* Retry bookkeeping                                                       *)
(***************************************************************************)
NoRetry ==
  [present |-> FALSE, maxRetries |-> 0, originalMaxRetries |-> Undefined,
   retryOnErrIds |-> [defined |-> FALSE, ids |-> {}],
   delayMs |-> "number", delay |-> 0, condition |-> "absent",
   onRetry |-> "absent"]

\* retry?.[originalMaxRetries] ?? retry?.maxRetries ?? 0
MaxAttempts(o) ==
  IF ~o.retry.present THEN 0
  ELSE IF o.retry.originalMaxRetries # Undefined THEN o.retry.originalMaxRetries
  ELSE o.retry.maxRetries

\* maxAttempts - (retry?.maxRetries ?? 0)
RetryAttempt(o) ==
  MaxAttempts(o) - (IF o.retry.present THEN o.retry.maxRetries ELSE 0)

GetCanRetryErrorId(errorId, retryOnErrIds) ==
  errorId \in (IF retryOnErrIds.defined THEN retryOnErrIds.ids ELSE DefaultRetryOnErrIds)

(***************************************************************************)
(* The state as a record, so that the steps of the pipeline compose        *)
(***************************************************************************)
State ==
  [options |-> options, pc |-> pc, response |-> response, pending |-> pending,
   result |-> result, calls |-> calls, failed |-> failed,
   lastError |-> lastError,
   onErrorArg |-> onErrorArg, lastCondition |-> lastCondition,
   nextInst |-> nextInst, now |-> now, startTimestamp |-> startTimestamp,
   callStart |-> callStart, abort |-> abort, globalDefaults |-> globalDefaults,
   bound |-> bound, seen |-> seen, ctx |-> ctx, hdr |-> hdr,
   request |-> request, trace |-> trace, callerOptions |-> callerOptions,
   callNo |-> callNo, devLogId |-> devLogId, logIds |-> logIds]

Apply(s) ==
  /\ options' = s.options
  /\ pc' = s.pc
  /\ response' = s.response
  /\ pending' = s.pending
  /\ result' = s.result
  /\ calls' = s.calls
  /\ failed' = s.failed
  /\ lastError' = s.lastError
  /\ onErrorArg' = s.onErrorArg
  /\ lastCondition' = s.lastCondition
  /\ nextInst' = s.nextInst
  /\ now' = s.now
  /\ startTimestamp' = s.startTimestamp
  /\ callStart' = s.callStart
  /\ abort' = s.abort
  /\ globalDefaults' = s.globalDefaults
  /\ bound' = s.bound
  /\ seen' = s.seen
  /\ ctx' = s.ctx
  /\ hdr' = s.hdr
  /\ request' = s.request
  /\ trace' = s.trace
  /\ callerOptions' = s.callerOptions
  /\ callNo' = s.callNo
  /\ devLogId' = s.devLogId
  /\ logIds' = s.logIds

(***************************************************************************)
(* errorResult: error finalization and the retry decision                  *)
(***************************************************************************)
\* variant: the value returned by the predicate is ignored
ConditionAllowsIgnoringResult(retry, cond) == TRUE

\* retry.condition?.(context) ?? true, where the predicate returns cond
ConditionAllows(retry, cond) ==
  IF retry.condition = "absent" THEN TRUE ELSE cond

\* variant: the last retry is never granted (maxRetries > 1)
RetryEligibleOffByOne(retry, errorId) ==
  /\ retry.present
  /\ retry.maxRetries > 1
  /\ GetCanRetryErrorId(errorId, retry.retryOnErrIds)

\* variant: a retry is granted without looking at the remaining count
RetryEligibleWithoutBudget(retry, errorId) ==
  /\ retry.present
  /\ GetCanRetryErrorId(errorId, retry.retryOnErrIds)

\* the conjuncts of the retry guard that precede the condition call
RetryEligible(retry, errorId) ==
  /\ retry.present
  /\ retry.maxRetries > 0
  /\ GetCanRetryErrorId(errorId, retry.retryOnErrIds)

\* the guard of the retry branch, evaluated left to right
RetryGuard(retry, errorId, cond) ==
  /\ RetryEligible(retry, errorId)
  /\ ConditionAllows(retry, cond)

\* variant: the copy loses the status of the error it is built from
FinalizeErrorDropsStatus(o, error) ==
  [error EXCEPT
     !.status = 0,
     !.url = "protocol//host/pathname",
     !.method = o.method,
     !.retryAttempt =
       IF MaxAttempts(o) = 0 \/ RetryAttempt(o) + 1 = 1
         THEN Undefined ELSE RetryAttempt(o),
     !.inst = error.inst + 1]

\* the copy of the error that errorResult builds: echoed request fields, retryAttempt
FinalizeError(o, error) ==
  LET maxAttempts == MaxAttempts(o)
      nextRetryAttempt == RetryAttempt(o) + 1
  IN [error EXCEPT
        !.status = IF error.status = 0 THEN 0 ELSE error.status,
        !.url = "protocol//host/pathname",
        !.method = o.method,
        !.retryAttempt =
          IF maxAttempts = 0 \/ nextRetryAttempt = 1
            THEN Undefined ELSE nextRetryAttempt - 1,
        !.inst = error.inst + 1]

\* the maxRetries of an options object, as a callback that is given the
\* object reads it
Remaining(o) == IF o.retry.present THEN o.retry.maxRetries ELSE Undefined

\* s after one more entry of the trace
Traced(s, ev, n, left) == [s EXCEPT !.trace = Append(@, Event(ev, n, left))]

\* logEnd?.error(...), logEnd?.success(): logEnd exists when a logger is bound
Logged(s, ev) ==
  IF s.bound.logger # "undefined" THEN Traced(s, ev, Undefined, Undefined) ELSE s

\* variant: the incremented counter is passed on but not stored
NextLogIdStale(s) == [s EXCEPT !.logIds = Append(@, s.devLogId + 1)]

\* ++devLogId, as the first argument of a logger invocation
NextLogId(s) ==
  [s EXCEPT !.devLogId = @ + 1, !.logIds = Append(@, s.devLogId + 1)]

\* logEnd = logger ? logger(++devLogId, url, method, startTimestamp ?? 0,
\* logOptions) : undefined
LoggerStart(s) ==
  IF s.bound.logger # "undefined"
    THEN Traced(NextLogId(s), "logStart", Undefined, Undefined)
    ELSE s

\* the non-retry exit: onError (a throw is logged), then Result.err(newError)
FailWith(s, newError) ==
  LET o == s.options
  IN [s EXCEPT
        !.pc = "done",
        !.trace = IF o.onError # "absent"
                    THEN Append(@, Event("onError", RetryAttempt(o), Remaining(o)))
                    ELSE @,
        !.calls.onError = IF o.onError # "absent" THEN @ + 1 ELSE @,
        !.onErrorArg = IF o.onError # "absent" THEN newError ELSE @,
        !.result = ResultErr(newError)]

\* variant: onError is invoked for the failed attempt before the back-off
StartSleepAfterOnError(s, error, errorDuration) ==
  [s EXCEPT
     !.pc = "sleeping",
     !.trace =
       (IF s.options.retry.delayMs = "function"
          THEN Append(@, Event("delayMs", RetryAttempt(s.options) + 1, Undefined))
          ELSE @)
       \o <<Event("sleep", s.options.retry.delay, Undefined)>>,
     !.calls.onError = IF s.options.onError # "absent" THEN @ + 1 ELSE @,
     !.calls.delayMs = IF s.options.retry.delayMs = "function" THEN @ + 1 ELSE @,
     !.calls.sleep = @ + 1,
     !.pending = [error |-> error, retryAttempt |-> RetryAttempt(s.options) + 1,
                  errorDuration |-> errorDuration,
                  wakeAt |-> s.now + s.options.retry.delay]]

\* variant: the delayMs function is given the 0-indexed attempt number
StartSleepZeroIndexed(s, error, errorDuration) ==
  [s EXCEPT
     !.pc = "sleeping",
     !.trace =
       (IF s.options.retry.delayMs = "function"
          THEN Append(@, Event("delayMs", RetryAttempt(s.options), Undefined))
          ELSE @)
       \o <<Event("sleep", s.options.retry.delay, Undefined)>>,
     !.calls.delayMs = IF s.options.retry.delayMs = "function" THEN @ + 1 ELSE @,
     !.calls.sleep = @ + 1,
     !.pending = [error |-> error, retryAttempt |-> RetryAttempt(s.options) + 1,
                  errorDuration |-> errorDuration,
                  wakeAt |-> s.now + s.options.retry.delay]]

\* the retry branch up to `await sleep(delay)`; errorDuration is the value
\* the cachedGetter holds (Undefined while it was not read)
StartSleep(s, error, errorDuration) ==
  [s EXCEPT
     !.pc = "sleeping",
     !.trace =
       (IF s.options.retry.delayMs = "function"
          THEN Append(@, Event("delayMs", RetryAttempt(s.options) + 1, Undefined))
          ELSE @)
       \o <<Event("sleep", s.options.retry.delay, Undefined)>>,
     !.calls.delayMs = IF s.options.retry.delayMs = "function" THEN @ + 1 ELSE @,
     !.calls.sleep = @ + 1,
     !.pending = [error |-> error, retryAttempt |-> RetryAttempt(s.options) + 1,
                  errorDuration |-> errorDuration,
                  wakeAt |-> s.now + s.options.retry.delay]]

\* variant: the duration is measured from the start of the logical call
ErrorDurationSinceCallStart(s) == s.now - s.callStart

\* () => Date.now() - (startTimestamp ?? 0)
ErrorDuration(s) ==
  s.now - (IF s.startTimestamp = Undefined THEN 0 ELSE s.startTimestamp)

ErrorResult(s, error, cond) ==
  LET o == s.options
      retry == o.retry
      newError == FinalizeError(o, error)
      conditionReached ==
        RetryEligible(retry, error.id) /\ retry.condition # "absent"
      context == [retryAttempt |-> RetryAttempt(o) + 1,
                  errorDuration |-> ErrorDuration(s), error |-> error]
      s0 == Logged(s, "logError")
      s1 == [s0 EXCEPT
               !.trace = IF conditionReached
                           THEN Append(@, Event("condition", RetryAttempt(o) + 1,
                                                Undefined))
                           ELSE @,
               !.ctx.condition = IF conditionReached THEN context ELSE @,
               !.nextInst = error.inst + 2,
               !.failed[error.id] = @ + 1,
               !.lastError = error,
               !.calls.condition = IF conditionReached THEN @ + 1 ELSE @,
               !.lastCondition =
                 IF ~conditionReached THEN "not called"
                 ELSE IF retry.condition = "throws" THEN "threw"
                 ELSE IF cond THEN "true" ELSE "false"]
  IN IF conditionReached /\ retry.condition = "throws"
       THEN [s1 EXCEPT !.pc = "done", !.result = Rejected]
     ELSE IF RetryGuard(retry, error.id, cond)
       THEN IF retry.delayMs = "throws"
              THEN [s1 EXCEPT !.pc = "done", !.calls.delayMs = @ + 1,
                              !.trace = Append(@, Event("delayMs",
                                          RetryAttempt(o) + 1, Undefined)),
                              !.result = Rejected]
              ELSE StartSleep(s1, error,
                     IF conditionReached THEN context.errorDuration
                     ELSE Undefined)
     ELSE FailWith(s1, newError)

(***************************************************************************)
(* typedFetch up to the fetcher invocation                                 *)
(***************************************************************************)
\* variant: the compatibility of method and body is checked before the
\* exclusivity of payload and formData
InputViolationMethodFirst(o) ==
  IF ~o.disablePathValidation /\ IsString(o.pathOrUrl)
       /\ StartsOrEndsWithSlash(o.pathOrUrl)
    THEN "Path should not start or end with /"
  ELSE IF ~o.disablePathValidation /\ IsString(o.pathOrUrl)
       /\ o.host # "" /\ IncludesScheme(o.pathOrUrl)
    THEN "Full url passed as string and host param should not be used together"
  ELSE IF ~o.disablePathValidation /\ IsString(o.pathOrUrl)
       /\ PathnameHasDoubleSlash(o.pathOrUrl)
    THEN "Path should not contain //"
  ELSE IF o.method \in {"GET", "DELETE"} /\ (o.payload \/ o.formData # "none")
    THEN "Payload or multiPart is not allowed for GET or DELETE requests"
  ELSE IF o.payload /\ o.formData # "none"
    THEN "Cannot use both payload and multiPart"
  ELSE IF ~o.jsonResponse /\ o.errorResponseSchema
    THEN "errorResponseSchema is not allowed when jsonResponse is false"
  ELSE ""

\* the message of the first violated input rule, "" when the inputs pass
InputViolation(o) ==
  IF ~o.disablePathValidation /\ IsString(o.pathOrUrl)
       /\ StartsOrEndsWithSlash(o.pathOrUrl)
    THEN "Path should not start or end with /"
  ELSE IF ~o.disablePathValidation /\ IsString(o.pathOrUrl)
       /\ o.host # "" /\ IncludesScheme(o.pathOrUrl)
    THEN "Full url passed as string and host param should not be used together"
  ELSE IF ~o.disablePathValidation /\ IsString(o.pathOrUrl)
       /\ PathnameHasDoubleSlash(o.pathOrUrl)
    THEN "Path should not contain //"
  ELSE IF o.payload /\ o.formData # "none"
    THEN "Cannot use both payload and multiPart"
  ELSE IF o.method \in {"GET", "DELETE"} /\ (o.payload \/ o.formData # "none")
    THEN "Payload or multiPart is not allowed for GET or DELETE requests"
  ELSE IF ~o.jsonResponse /\ o.errorResponseSchema
    THEN "errorResponseSchema is not allowed when jsonResponse is false"
  ELSE ""

\* pathParams are set on url.searchParams
ApplyQuery(s) == [s EXCEPT !.request.queryApplied = TRUE]

\* finalHeaders and body: the caller's headers, then the body and what it
\* does to Content-Type; an unserialisable field leaves the body unbuilt
EncodeBody(s) ==
  LET o == s.options
      given == IF o.contentTypeHeader # "none" THEN "caller" ELSE "none"
  IN [s EXCEPT
        !.request.body =
          IF o.formData \in {"instance", "object"} THEN "FormData"
          ELSE IF o.formData = "none" /\ o.payload THEN "json"
          ELSE "undefined",
        !.request.contentType =
          IF o.formData = "instance" THEN given
          ELSE IF o.formData = "object" THEN "none"
          ELSE IF o.formData = "none" /\ o.payload /\ given = "none"
            THEN "application/json"
          ELSE given]

\* variant: the input rules are checked after the fetcher was invoked
RejectInputAfterFetch(s, violation, cond) ==
  ErrorResult([s EXCEPT !.calls.fetcher = @ + 1],
    TypedFetchError("invalid_options", violation, Undefined, "undefined",
                    s.nextInst), cond)

\* an input rule is violated: errorResult(new TypedFetchError({id: 'invalid_options', message}))
RejectInput(s, violation, cond) ==
  ErrorResult(s,
    TypedFetchError("invalid_options", violation, Undefined, "undefined",
                    s.nextInst), cond)

\* what onRequest can do to the fetchOptions object it is given
OnRequestEdits ==
  {"none", "setsHeader", "reassignsHeaders", "reassignsMethod",
   "reassignsBody", "reassignsSignal"}

\* const fetchOptions = {headers: finalHeaders, method, body, signal:
\* abortSignal}, after onRequest used it; headers.object names the Headers
\* object and headers.custom tells that it holds the header onRequest sets
FetchOptions(s) ==
  LET o == s.options
      edit == IF o.onRequest = "returns" THEN o.onRequestEdits ELSE "none"
  IN [headers |->
        IF edit = "reassignsHeaders"
          THEN [object |-> "new Headers", custom |-> TRUE]
          ELSE [object |-> "finalHeaders", custom |-> edit = "setsHeader"],
      method |-> IF edit = "reassignsMethod" THEN "PUT" ELSE o.method,
      body |-> IF edit = "reassignsBody" THEN "edited" ELSE s.request.body,
      signal |->
        IF edit = "reassignsSignal" THEN "other signal"
        ELSE IF o.signal = "present" \/ o.timeoutMs > 0 THEN "abortSignal"
        ELSE "undefined"]

\* the second argument of the fetcher: a new object built from the local
\* variables finalHeaders, method, body and abortSignal
TransportOptions(s) ==
  LET o == s.options
      edit == IF o.onRequest = "returns" THEN o.onRequestEdits ELSE "none"
  IN [headers |-> [object |-> "finalHeaders", custom |-> edit = "setsHeader"],
      method |-> o.method,
      body |-> s.request.body,
      signal |-> IF o.signal = "present" \/ o.timeoutMs > 0
                   THEN "abortSignal" ELSE "undefined"]

\* variant: onRequest is only invoked in the first attempt
InvokeFetcherOnRequestOnce(s) ==
  [s EXCEPT
     !.pc = "awaitingTransport",
     !.calls.onRequest =
       IF s.options.onRequest = "returns" /\ RetryAttempt(s.options) = 0
         THEN @ + 1 ELSE @,
     !.trace =
       (IF s.options.onRequest = "returns" /\ RetryAttempt(s.options) = 0
          THEN Append(@, Event("onRequest", RetryAttempt(s.options),
                               Remaining(s.options)))
          ELSE @)
       \o <<Event("fetcher", Undefined, Undefined)>>,
     !.calls.fetcher = @ + 1]

\* variant: the fetcher is invoked before onRequest
InvokeFetcherBeforeOnRequest(s) ==
  [s EXCEPT
     !.pc = "awaitingTransport",
     !.calls.onRequest = IF s.options.onRequest = "returns" THEN @ + 1 ELSE @,
     !.trace =
       Append(@, Event("fetcher", Undefined, Undefined))
       \o (IF s.options.onRequest = "returns"
             THEN <<Event("onRequest", RetryAttempt(s.options),
                          Remaining(s.options))>>
             ELSE <<>>),
     !.calls.fetcher = @ + 1]

\* onRequest returned or is absent: fetcher(url, {headers, method, body, signal})
InvokeFetcher(s) ==
  [s EXCEPT
     !.pc = "awaitingTransport",
     !.request.fetchOptions = FetchOptions(s),
     !.request.sent = TransportOptions(s),
     !.calls.onRequest = IF s.options.onRequest = "returns" THEN @ + 1 ELSE @,
     !.trace =
       (IF s.options.onRequest = "returns"
          THEN Append(@, Event("onRequest", RetryAttempt(s.options),
                               Remaining(s.options)))
          ELSE @)
       \o <<Event("fetcher", Undefined, Undefined)>>,
     !.calls.fetcher = @ + 1]

\* the destructuring of options with its defaults, and startTimestamp; every
\* invocation of typedFetch does it, the re-invocations of a retry included
Destructure(s) ==
  LET o == s.options
      first == s.pc = "init"
      fetcher ==
        IF o.fetcher # "undefined" THEN o.fetcher
        ELSE IF s.globalDefaults.fetcher # "undefined"
          THEN s.globalDefaults.fetcher
        ELSE "defaultFetcher"
      logger ==
        IF o.logger # "undefined" THEN o.logger ELSE s.globalDefaults.logger
  IN [s EXCEPT
        !.bound = [fetcher |-> fetcher, logger |-> logger,
                   firstFetcher |-> IF first THEN fetcher ELSE @.firstFetcher,
                   firstLogger |-> IF first THEN logger ELSE @.firstLogger],
        !.startTimestamp =
          IF o.retry.present \/ logger # "undefined" THEN s.now ELSE Undefined,
        !.callStart = IF first THEN s.now ELSE @,
        !.seen = NoneSeen,
        !.request = NoRequest,
        !.abort = [@ EXCEPT !.reason = "none", !.deadline = Undefined]]

\* variant: one timeout is armed when the call begins and bounds all attempts
ComposeSignalOneDeadline(s) ==
  LET o == s.options
      deadline == s.callStart + o.timeoutMs
  IN [s EXCEPT
        !.abort.reason =
          IF o.signal = "present" /\ s.abort.caller THEN "AbortError"
          ELSE IF o.timeoutMs > 0 /\ s.now >= deadline THEN "TimeoutError"
          ELSE "none",
        !.abort.deadline = IF o.timeoutMs > 0 THEN deadline ELSE Undefined]

\* variant: a signal that fired before the attempt is not seen by it
ComposeSignalIgnoresFired(s) ==
  LET o == s.options
  IN [s EXCEPT
        !.abort.reason = "none",
        !.abort.deadline =
          IF o.timeoutMs > 0 THEN s.now + o.timeoutMs ELSE Undefined]

\* abortSignal: the caller's signal, composed with AbortSignal.timeout(timeoutMs)
ComposeSignal(s) ==
  LET o == s.options
  IN [s EXCEPT
        !.abort.reason =
          IF o.signal = "present" /\ s.abort.caller THEN "AbortError" ELSE "none",
        !.abort.deadline =
          IF o.timeoutMs > 0 THEN s.now + o.timeoutMs ELSE Undefined]

\* variant: the exception of onRequest is swallowed like those of the other hooks
OnRequestThrewIgnored(s, cond) ==
  [s EXCEPT
     !.pc = "awaitingTransport",
     !.calls.onRequest = @ + 1,
     !.trace = @ \o <<Event("onRequest", RetryAttempt(s.options),
                             Remaining(s.options)),
                       Event("fetcher", Undefined, Undefined)>>,
     !.calls.fetcher = @ + 1]

\* !onRequestResult.ok
OnRequestThrew(s, cond) ==
  ErrorResult([s EXCEPT
                 !.calls.onRequest = @ + 1,
                 !.trace = Append(@, Event("onRequest", RetryAttempt(s.options),
                                           Remaining(s.options)))],
    [TypedFetchError("hook_cb_error", "onRequest threw", Undefined,
                     "undefined", s.nextInst)
     EXCEPT !.cause = "error thrown by onRequest"], cond)

\* variant: the input rules are checked before the logger is invoked
TypedFetchValidatesBeforeLogging(s, cond) ==
  LET o == s.options
      violation == InputViolation(o)
      d == Destructure(s)
      started == LoggerStart(d)
      queried == ApplyQuery(started)
      encoded == EncodeBody(queried)
  IN IF ~UrlResolves(o.pathOrUrl, o.host)
       THEN LET e == [TypedFetchError("invalid_options",
                        "Invalid url, path or host param", 0, "undefined",
                        s.nextInst)
                      EXCEPT !.url = "host/pathOrUrl", !.method = o.method,
                             !.cause = "TypeError: Invalid URL"]
            IN [d EXCEPT !.pc = "done", !.nextInst = @ + 1,
                         !.failed[e.id] = @ + 1, !.lastError = e,
                         !.result = ResultErr(e)]
     ELSE IF violation # ""
       THEN RejectInput(d, violation, cond)
     ELSE IF o.jsonPathParams = "cyclic"
       THEN RejectInput(queried, "Invalid JSON path parameter", cond)
     ELSE IF o.formData = "unserialisable"
       THEN RejectInput(encoded, "Could not stringify value for multipart key",
                        cond)
     ELSE IF o.onRequest = "throws"
       THEN OnRequestThrew(ComposeSignal(encoded), cond)
     ELSE InvokeFetcher(ComposeSignal(encoded))

\* one invocation of typedFetch up to its first suspension point or its return
TypedFetch(s, cond) ==
  LET o == s.options
      violation == InputViolation(o)
      d == Destructure(s)
      started == LoggerStart(d)
      queried == ApplyQuery(started)
      encoded == EncodeBody(queried)
  IN IF ~UrlResolves(o.pathOrUrl, o.host)
       THEN LET e == [TypedFetchError("invalid_options",
                        "Invalid url, path or host param", 0, "undefined",
                        s.nextInst)
                      EXCEPT !.url = "host/pathOrUrl", !.method = o.method,
                             !.cause = "TypeError: Invalid URL"]
            IN [d EXCEPT !.pc = "done", !.nextInst = @ + 1,
                         !.failed[e.id] = @ + 1, !.lastError = e,
                         !.result = ResultErr(e)]
     ELSE IF violation # ""
       THEN RejectInput(started, violation, cond)
     ELSE IF o.jsonPathParams = "cyclic"
       THEN RejectInput(queried, "Invalid JSON path parameter", cond)
     ELSE IF o.formData = "unserialisable"
       THEN RejectInput(encoded, "Could not stringify value for multipart key",
                        cond)
     ELSE IF o.onRequest = "throws"
       THEN OnRequestThrew(ComposeSignal(encoded), cond)
     ELSE InvokeFetcher(ComposeSignal(encoded))

(***************************************************************************)
(* typedFetch after the fetcher settled                                    *)
(***************************************************************************)
\* variant: an abort-shaped fault is classified as a network error
FaultKindWithoutAborted(name) ==
  CASE name = "TimeoutError" -> "timeout"
    [] OTHER -> "network_or_cors_error"

\* response.error.name === 'TimeoutError' / 'AbortError' / anything else
FaultKind(name) ==
  CASE name = "TimeoutError" -> "timeout"
    [] name = "AbortError" -> "aborted"
    [] OTHER -> "network_or_cors_error"

\* variant: the rejection of the fetcher is not caught
TransportRejectedUncaught(s, name, cond) ==
  [s EXCEPT !.pc = "done", !.result = Rejected]

\* !response.ok: classification of the rejection by the fault name
TransportRejected(s, name, cond) ==
  ErrorResult([Traced(s, "settled", Undefined, Undefined)
               EXCEPT !.seen.fault = name],
    [TypedFetchError(FaultKind(name), name, Undefined, "undefined", s.nextInst)
     EXCEPT !.cause = name],
    cond)

\* response.ok: getText() is invoked and awaited
TransportResolved(s, status) ==
  [Traced(s, "settled", Undefined, Undefined)
   EXCEPT !.pc = "readingBody", !.response = FetcherResponse(status),
            !.seen.status = status,
            !.calls.getText = @ + 1]

\* !responseText.ok
BodyUnreadable(s, cond) ==
  ErrorResult([s EXCEPT !.seen.text = "unreadable"],
    [TypedFetchError("invalid_json", "body read failed", s.response.status,
                     "undefined", s.nextInst)
     EXCEPT !.cause = "cause of the body fault"], cond)

\* variant: a body that the error schema accepts makes the call succeed
ErrorStatusAsOk(s, parsed, errVerdict, cond) ==
  LET o == s.options
      r == s.response
      errorResponse == StandardResultValidate(errVerdict, parsed)
      s1 == [s EXCEPT !.seen.errVerdict =
                        IF o.errorResponseSchema THEN errVerdict ELSE @]
  IN IF o.errorResponseSchema /\ ~errorResponse.ok
       THEN ErrorResult(s1,
              [TypedFetchError("response_validation_error",
                 errorResponse.message, r.status, parsed, s.nextInst)
               EXCEPT !.schemaIssues = errorResponse.issues], cond)
     ELSE IF o.errorResponseSchema
       THEN [Logged(s1, "logSuccess") EXCEPT
               !.pc = "done", !.result = ResultOk(errorResponse.value)]
     ELSE ErrorResult(s1,
            TypedFetchError("request_error", r.statusText, r.status, parsed,
                            s.nextInst), cond)

\* JSON mode, !response.value.ok: the error schema, then request_error
ErrorStatus(s, parsed, errVerdict, cond) ==
  LET o == s.options
      r == s.response
      errorResponse == StandardResultValidate(errVerdict, parsed)
      s1 == [s EXCEPT !.seen.errVerdict =
                        IF o.errorResponseSchema THEN errVerdict ELSE @]
  IN IF o.errorResponseSchema /\ errVerdict = "throws"
       THEN [s1 EXCEPT !.pc = "done", !.result = Rejected]
     ELSE IF o.errorResponseSchema /\ ~errorResponse.ok
       THEN ErrorResult(s1,
              [TypedFetchError("response_validation_error",
                 errorResponse.message, r.status, parsed, s.nextInst)
               EXCEPT !.schemaIssues = errorResponse.issues], cond)
     ELSE IF o.getMessageFromRequestError = "throws" /\ o.errorResponseSchema
       THEN [s1 EXCEPT !.pc = "done", !.result = Rejected]
     ELSE ErrorResult(s1,
            TypedFetchError("request_error",
              IF o.getMessageFromRequestError = "returns"
                 /\ o.errorResponseSchema
                THEN "message from error response" ELSE r.statusText,
              r.status, parsed, s.nextInst), cond)

\* variant: the parsed body is returned when the schema reports issues
ValidateResponseUnchecked(s, parsed, respVerdict, errVerdict, cond) ==
  LET validResponse == StandardResultValidate(respVerdict, parsed)
      s1 == [s EXCEPT !.seen.respVerdict = respVerdict]
  IN IF respVerdict = "throws"
       THEN [s1 EXCEPT !.pc = "done", !.result = Rejected]
     ELSE IF ~validResponse.ok
       THEN [Logged(s1, "logSuccess") EXCEPT
               !.pc = "done", !.result = ResultOk(parsed)]
     ELSE [Logged(s1, "logSuccess") EXCEPT
             !.pc = "done", !.result = ResultOk(validResponse.value)]

\* JSON mode, successful status, responseSchema configured
ValidateResponse(s, parsed, respVerdict, errVerdict, cond) ==
  LET r == s.response
      validResponse == StandardResultValidate(respVerdict, parsed)
      s1 == [s EXCEPT !.seen.respVerdict = respVerdict]
  IN IF respVerdict = "throws"
       THEN [s1 EXCEPT !.pc = "done", !.result = Rejected]
     ELSE IF ~validResponse.ok
       THEN IF s.options.errorResponseSchema /\ errVerdict = "throws"
              THEN [s1 EXCEPT !.pc = "done", !.result = Rejected]
              ELSE ErrorResult(s1,
                     [TypedFetchError("response_validation_error",
                        validResponse.message, r.status, parsed, s.nextInst)
                      EXCEPT !.schemaIssues = validResponse.issues], cond)
     ELSE [Logged(s1, "logSuccess") EXCEPT
             !.pc = "done", !.result = ResultOk(validResponse.value)]

\* JSON mode, from JSON.parse on
JsonBranch(s, text, respVerdict, errVerdict, cond) ==
  LET o == s.options
      r == s.response
      parsedResponse == JsonParse(text)
  IN IF ~parsedResponse.ok
       THEN ErrorResult(s,
              TypedFetchError("invalid_json", parsedResponse.message, 400,
                              text, s.nextInst), cond)
     ELSE IF ~r.ok
       THEN ErrorStatus(s, parsedResponse.value, errVerdict, cond)
     ELSE IF ~o.responseSchema
       THEN [Logged(s, "logSuccess") EXCEPT
               !.pc = "done", !.result = ResultOk(parsedResponse.value)]
     ELSE ValidateResponse(s, parsedResponse.value, respVerdict, errVerdict, cond)

\* raw-text mode
TextBranch(s, text, cond) ==
  LET r == s.response
  IN IF ~r.ok
       THEN ErrorResult(s,
              TypedFetchError("request_error", r.statusText, r.status, text,
                              s.nextInst), cond)
       ELSE [Logged(s, "logSuccess") EXCEPT
               !.pc = "done", !.result = ResultOk(text)]

\* variant: an exception of onResponse fails the attempt like one of onRequest
BodyReadOnResponseFatal(s, text, respVerdict, errVerdict, cond) ==
  LET o == s.options
      r == s.response
      s0 == [s EXCEPT !.seen.text = text]
      s1 == [s0 EXCEPT !.calls.responseIsValid =
                         IF o.responseIsValid # "absent" THEN @ + 1 ELSE @]
      s2 == [s1 EXCEPT
               !.calls.onResponse = IF o.onResponse # "absent" THEN @ + 1 ELSE @,
               !.trace = IF o.onResponse # "absent"
                           THEN Append(@, Event("onResponse", RetryAttempt(o),
                                                Remaining(o)))
                           ELSE @]
  IN IF o.responseIsValid = "undefined"
       THEN [s1 EXCEPT !.pc = "done", !.result = Rejected]
     ELSE IF o.responseIsValid \in {"error", "throws"}
       THEN ErrorResult(s1,
              [TypedFetchError("invalid_response", "response is not valid",
                               r.status, text, s.nextInst)
               EXCEPT !.cause = "error of responseIsValid"], cond)
     ELSE IF o.onResponse = "throws"
       THEN ErrorResult(s2,
              [TypedFetchError("hook_cb_error", "onResponse threw", Undefined,
                               "undefined", s.nextInst)
               EXCEPT !.cause = "error thrown by onResponse"], cond)
     ELSE IF ~o.jsonResponse
       THEN TextBranch(s2, text, cond)
     ELSE JsonBranch(s2, text, respVerdict, errVerdict, cond)

\* variant: onResponse is only invoked for a response with a successful status
BodyReadOnResponseOkOnly(s, text, respVerdict, errVerdict, cond) ==
  LET o == s.options
      r == s.response
      s0 == [s EXCEPT !.seen.text = text]
      s1 == [s0 EXCEPT !.calls.responseIsValid =
                         IF o.responseIsValid # "absent" THEN @ + 1 ELSE @]
      s2 == [s1 EXCEPT
               !.calls.onResponse =
                 IF o.onResponse # "absent" /\ r.ok THEN @ + 1 ELSE @,
               !.trace = IF o.onResponse # "absent" /\ r.ok
                           THEN Append(@, Event("onResponse", RetryAttempt(o),
                                                Remaining(o)))
                           ELSE @]
  IN IF o.responseIsValid = "undefined"
       THEN [s1 EXCEPT !.pc = "done", !.result = Rejected]
     ELSE IF o.responseIsValid \in {"error", "throws"}
       THEN ErrorResult(s1,
              [TypedFetchError("invalid_response", "response is not valid",
                               r.status, text, s.nextInst)
               EXCEPT !.cause = "error of responseIsValid"], cond)
     ELSE IF ~o.jsonResponse
       THEN TextBranch(s2, text, cond)
     ELSE JsonBranch(s2, text, respVerdict, errVerdict, cond)

\* variant: responseIsValid is only consulted for a successful status
BodyReadValidatesOkOnly(s, text, respVerdict, errVerdict, cond) ==
  LET o == s.options
      r == s.response
      s0 == [s EXCEPT !.seen.text = text]
      s1 == [s0 EXCEPT !.calls.responseIsValid =
                         IF o.responseIsValid # "absent" THEN @ + 1 ELSE @]
      s2 == [s1 EXCEPT
               !.calls.onResponse = IF o.onResponse # "absent" THEN @ + 1 ELSE @,
               !.trace = IF o.onResponse # "absent"
                           THEN Append(@, Event("onResponse", RetryAttempt(o),
                                                Remaining(o)))
                           ELSE @]
  IN IF o.responseIsValid = "undefined"
       THEN [s1 EXCEPT !.pc = "done", !.result = Rejected]
     ELSE IF o.responseIsValid \in {"error", "throws"} /\ r.ok
       THEN ErrorResult(s1,
              [TypedFetchError("invalid_response", "response is not valid",
                               r.status, text, s.nextInst)
               EXCEPT !.cause = "error of responseIsValid"], cond)
     ELSE IF ~o.jsonResponse
       THEN TextBranch(s2, text, cond)
     ELSE JsonBranch(s2, text, respVerdict, errVerdict, cond)

\* responseText.ok: responseIsValid, onResponse, then the mode's branch
BodyRead(s, text, respVerdict, errVerdict, cond) ==
  LET o == s.options
      r == s.response
      s0 == [s EXCEPT !.seen.text = text]
      s1 == [s0 EXCEPT !.calls.responseIsValid =
                         IF o.responseIsValid # "absent" THEN @ + 1 ELSE @]
      s2 == [s1 EXCEPT
               !.calls.onResponse = IF o.onResponse # "absent" THEN @ + 1 ELSE @,
               !.trace = IF o.onResponse # "absent"
                           THEN Append(@, Event("onResponse", RetryAttempt(o),
                                                Remaining(o)))
                           ELSE @]
  IN IF o.responseIsValid = "undefined"
       THEN [s1 EXCEPT !.pc = "done", !.result = Rejected]
     ELSE IF o.responseIsValid \in {"error", "throws"}
       THEN ErrorResult(s1,
              [TypedFetchError("invalid_response", "response is not valid",
                               r.status, text, s.nextInst)
               EXCEPT !.cause = "error of responseIsValid"], cond)
     ELSE IF ~o.jsonResponse
       THEN TextBranch(s2, text, cond)
     ELSE JsonBranch(s2, text, respVerdict, errVerdict, cond)

(***************************************************************************)
(* errorResult after the sleep: onRetry, then the re-invocation            *)
(***************************************************************************)
\* variant: the original maxRetries is not carried over
NewOptionsForgetsOriginal(o) ==
  [o EXCEPT !.retry.maxRetries = @ - 1]

\* {...options, retry: {...retry, [originalMaxRetries]: maxAttempts,
\* maxRetries: retry.maxRetries - 1}}
NewOptions(o) ==
  [o EXCEPT !.retry.originalMaxRetries = MaxAttempts(o),
            !.retry.maxRetries = @ - 1]

\* variant: the bookkeeping is written into the caller's options object
DeriveOptionsInPlace(s) ==
  [s EXCEPT !.options = NewOptions(s.options),
            !.callerOptions = NewOptions(s.options)]

\* newOptions = {...options, retry: {...retry, ...}}: new objects, the
\* caller's are not written
DeriveOptions(s) == [s EXCEPT !.options = NewOptions(s.options)]

\* no retry is pending
NoPending ==
  [error |-> NoError, retryAttempt |-> 0, errorDuration |-> Undefined,
   wakeAt |-> 0]

\* variant: onRetry is only invoked for the first retry of a call
InvokeOnRetryFirstOnly(s) ==
  LET o == s.options
      context ==
        [retryAttempt |-> s.pending.retryAttempt,
         errorDuration |->
           IF s.pending.errorDuration # Undefined
             THEN s.pending.errorDuration ELSE ErrorDuration(s),
         error |-> s.pending.error]
      invoked == o.retry.onRetry # "absent" /\ s.pending.retryAttempt = 1
  IN [s EXCEPT
        !.calls.onRetry = IF invoked THEN @ + 1 ELSE @,
        !.ctx.onRetry = IF invoked THEN context ELSE @,
        !.trace = IF invoked
                    THEN Append(@, Event("onRetry", s.pending.retryAttempt,
                                         Undefined))
                    ELSE @]

\* resultify(() => retry.onRetry?.({error, retryAttempt: nextRetryAttempt,
\* errorDuration: errorDuration.value}))
InvokeOnRetry(s) ==
  LET o == s.options
      context ==
        [retryAttempt |-> s.pending.retryAttempt,
         errorDuration |->
           IF s.pending.errorDuration # Undefined
             THEN s.pending.errorDuration ELSE ErrorDuration(s),
         error |-> s.pending.error]
  IN [s EXCEPT
        !.calls.onRetry = IF o.retry.onRetry # "absent" THEN @ + 1 ELSE @,
        !.ctx.onRetry = IF o.retry.onRetry # "absent" THEN context ELSE @,
        !.trace = IF o.retry.onRetry # "absent"
                    THEN Append(@, Event("onRetry", s.pending.retryAttempt,
                                         Undefined))
                    ELSE @]

Reinvoke(s, cond) ==
  LET s1 == [InvokeOnRetry(s) EXCEPT
               !.response = NoResponse,
               !.pending = NoPending]
  IN TypedFetch(DeriveOptions(s1), cond)

(***************************************************************************)
(* Actions                                                                 *)
(***************************************************************************)
\* what the retry condition can return when errorResult asks it
ConditionOutcomes == IF options.retry.condition = "predicate" THEN BOOLEAN ELSE {TRUE}

\* what a schema can answer when it is configured
VerdictsOf(schema) ==
  IF ~schema THEN {"value"}
  ELSE IF options.validateMayThrow THEN Verdicts \cup {"throws"}
  ELSE Verdicts

\* the abortSignal handed to the fetcher has fired
SignalFired == abort.reason # "none"

\* defaultFetcher passes the signal to fetch(), which honours it; any other
\* fetcher is a black box
HonoursSignal == bound.fetcher = "defaultFetcher"

\* the names fetch() rejects with once a timeout signal aborted it: the
\* signal's reason (TimeoutError) or the generic AbortError, depending on the
\* fetch implementation
TimeoutFaultNames == {"TimeoutError", "AbortError"}

\* the faults the bound fetcher can reject with in the current state
RejectionNames ==
  IF ~HonoursSignal THEN FaultNames
  ELSE IF abort.reason = "TimeoutError" THEN TimeoutFaultNames
  ELSE IF abort.reason = "AbortError" THEN {"AbortError"}
  ELSE {"TypeError"}

\* the caller invokes typedFetch(pathOrUrl, options)
Call ==
  /\ pc = "init"
  /\ \E cond \in ConditionOutcomes : Apply(TypedFetch(State, cond))

\* the promise returned by the fetcher rejects
FetcherRejects ==
  /\ pc = "awaitingTransport"
  /\ \E name \in RejectionNames, cond \in ConditionOutcomes :
       Apply(TransportRejected(State, name, cond))

\* the promise returned by the fetcher resolves
FetcherResolves ==
  /\ pc = "awaitingTransport"
  /\ ~(HonoursSignal /\ SignalFired)
  /\ \E status \in Statuses : Apply(TransportResolved(State, status))

\* getText() rejects
GetTextRejects ==
  /\ pc = "readingBody"
  /\ \E cond \in ConditionOutcomes : Apply(BodyUnreadable(State, cond))

\* getText() resolves with the body text
GetTextResolves ==
  /\ pc = "readingBody"
  /\ ~(HonoursSignal /\ SignalFired)
  /\ \E text \in BodyTexts, respVerdict \in VerdictsOf(options.responseSchema),
        errVerdict \in VerdictsOf(options.errorResponseSchema),
        cond \in ConditionOutcomes :
       Apply(BodyRead(State, text, respVerdict, errVerdict, cond))

\* variant: the re-invocation does not wait for the timer of the sleep
SleepCompletesEarly ==
  /\ pc = "sleeping"
  /\ \E cond \in ConditionOutcomes : Apply(Reinvoke(State, cond))

\* the retry sleep completes: setTimeout fires no earlier than the delay
SleepCompletes ==
  /\ pc = "sleeping"
  /\ now >= pending.wakeAt
  /\ \E cond \in ConditionOutcomes : Apply(Reinvoke(State, cond))

Next ==
  \/ Call
  \/ FetcherRejects
  \/ FetcherResolves
  \/ GetTextRejects
  \/ GetTextResolves
  \/ SleepCompletes

(***************************************************************************)
(* The environment of a call in flight: time, signals, global defaults     *)
(***************************************************************************)
\* a millisecond passes while the call is suspended
Tick ==
  /\ pc \in {"awaitingTransport", "readingBody", "sleeping"}
  /\ now < MaxTime
  /\ Apply([State EXCEPT !.now = @ + 1])

\* the timer of AbortSignal.timeout(timeoutMs) fires and aborts abortSignal
TimeoutElapses ==
  /\ pc \in {"awaitingTransport", "readingBody"}
  /\ abort.deadline # Undefined
  /\ now >= abort.deadline
  /\ abort.reason = "none"
  /\ Apply([State EXCEPT !.abort.reason = "TimeoutError"])

\* the caller aborts the signal it passed in options.signal
CallerAborts ==
  /\ pc # "done"
  /\ options.signal = "present"
  /\ ~abort.caller
  /\ Apply([State EXCEPT
              !.abort.caller = TRUE,
              !.abort.during = pc,
              !.abort.reason =
                IF pc \in {"awaitingTransport", "readingBody"} /\ @ = "none"
                  THEN "AbortError" ELSE @])

DefaultFetchers == {"undefined", "fetcherA"}
DefaultLoggers == {"undefined", "loggerA"}

\* Partial<GlobalDefaults>: "absent" is a key that the object does not have
PartialDefaults ==
  [fetcher : DefaultFetchers \cup {"absent"},
   logger : DefaultLoggers \cup {"absent"}]

\* globalDefaults = { ...globalDefaults, ...defaults }
SetTypedFetchGlobalDefaults ==
  \E defaults \in PartialDefaults :
    /\ pc # "done"
    /\ Apply([State EXCEPT
                !.globalDefaults =
                  [fetcher |-> IF defaults.fetcher = "absent"
                                 THEN @.fetcher ELSE defaults.fetcher,
                   logger |-> IF defaults.logger = "absent"
                                THEN @.logger ELSE defaults.logger]])

NextEnv ==
  \/ Next
  \/ Tick
  \/ TimeoutElapses
  \/ CallerAborts

\* the caller, holding a settled Result, invokes typedFetch once more with
\* the same options object
CallAgain ==
  /\ pc = "done"
  /\ callNo < MaxCalls
  /\ Apply([State EXCEPT
              !.options = callerOptions,
              !.pc = "init",
              !.response = NoResponse,
              !.pending = NoPending,
              !.result = Pending,
              !.calls = NoCalls,
              !.failed = [id \in ErrorIds |-> 0],
              !.lastError = NoError,
              !.onErrorArg = NoError,
              !.lastCondition = "not called",
              !.seen = NoneSeen,
              !.ctx = [condition |-> NoContext, onRetry |-> NoContext],
              !.request = NoRequest,
              !.trace = <<>>,
              !.callNo = @ + 1])

NextReuse ==
  \/ Next
  \/ CallAgain

NextDefaults ==
  \/ Next
  \/ SetTypedFetchGlobalDefaults

\* an attempt of another logical call of the process reaches its logger
\* invocation while this call is suspended, not started or settled
OtherCallInvokesLogger ==
  /\ devLogId < MaxLogId
  /\ Apply(NextLogId(State))

NextLogger ==
  \/ Next
  \/ OtherCallInvokesLogger

(***************************************************************************)
(* TypedFetchError: the headers an error exposes                           *)
(***************************************************************************)
HeaderChars == {"a", "b"}

\* the strings of at most MaxHeaderLen characters
HeaderValues == UNION {[1..n -> HeaderChars] : n \in 0..MaxHeaderLen}

\* a header whose value is null, and a key the headers object does not have
Null == <<"null">>
Absent == <<"absent">>

HeaderKeys == {"authorization", "x-trace"}

\* headers: undefined
NoHeaders == [defined |-> FALSE, entries |-> [k \in HeaderKeys |-> Absent]]

Min(a, b) == IF a < b THEN a ELSE b

\* variant: half of the value stays visible whatever its length
MaskHeaderValueHalf(value) ==
  LET visible == (Len(value) + 1) \div 2
  IN SubSeq(value, 1, visible) \o [i \in 1..(Len(value) - visible) |-> "*"]

\* value.slice(0, visible) + '*'.repeat(value.length - visible)
MaskHeaderValue(value) ==
  LET visible == Min(4, (Len(value) + 1) \div 2)
  IN SubSeq(value, 1, visible) \o [i \in 1..(Len(value) - visible) |-> "*"]

GetMaskedHeaders(headers) ==
  LET shown == {k \in HeaderKeys : headers.entries[k] \notin {Null, Absent}}
  IN IF ~headers.defined \/ shown = {} THEN NoHeaders
     ELSE [defined |-> TRUE,
           entries |-> [k \in HeaderKeys |->
                          IF k \in shown THEN MaskHeaderValue(headers.entries[k])
                          ELSE Absent]]

\* an error that was constructed with `headers`, none of its accessors used
NewHeaderState(headers) ==
  [given |-> headers, rawHeaders |-> headers, getter |-> NoHeaders,
   json |-> NoHeaders, unmasked |-> NoHeaders, getterCalls |-> 0,
   toJSONCalls |-> 0, unmaskedCalls |-> 0]

NoHeaderState == NewHeaderState(NoHeaders)

\* get headers(): getMaskedHeaders(this.#rawHeaders)
HeadersGetter ==
  /\ hdr.getterCalls < MaxAccessorCalls
  /\ hdr' = [hdr EXCEPT !.getter = GetMaskedHeaders(hdr.rawHeaders),
                        !.getterCalls = @ + 1]
  /\ UNCHANGED <<options, pc, response, pending, result, calls, failed,
                 lastError, onErrorArg, lastCondition, nextInst, now,
                 startTimestamp, callStart, abort, globalDefaults, bound,
                 seen, ctx, request, trace, callerOptions, callNo,
                 devLogId, logIds>>

\* toJSON(): {...rest, headers: this.headers, ...}
ToJSON ==
  /\ hdr.toJSONCalls < MaxAccessorCalls
  /\ hdr' = [hdr EXCEPT !.json = GetMaskedHeaders(hdr.rawHeaders),
                        !.toJSONCalls = @ + 1]
  /\ UNCHANGED <<options, pc, response, pending, result, calls, failed,
                 lastError, onErrorArg, lastCondition, nextInst, now,
                 startTimestamp, callStart, abort, globalDefaults, bound,
                 seen, ctx, request, trace, callerOptions, callNo,
                 devLogId, logIds>>

\* getUnmaskedHeaders(): this.#rawHeaders
GetUnmaskedHeaders ==
  /\ hdr.unmaskedCalls < MaxAccessorCalls
  /\ hdr' = [hdr EXCEPT !.unmasked = hdr.rawHeaders,
                        !.unmaskedCalls = @ + 1]
  /\ UNCHANGED <<options, pc, response, pending, result, calls, failed,
                 lastError, onErrorArg, lastCondition, nextInst, now,
                 startTimestamp, callStart, abort, globalDefaults, bound,
                 seen, ctx, request, trace, callerOptions, callNo,
                 devLogId, logIds>>

NextHeaders ==
  \/ HeadersGetter
  \/ ToJSON
  \/ GetUnmaskedHeaders

(***************************************************************************)
(* Call configurations                                                     *)
(***************************************************************************)
Callbacks == {"absent", "returns", "throws"}

RetryOnErrIdsChoices ==
  {[defined |-> FALSE, ids |-> {}],
   [defined |-> TRUE, ids |-> {}],
   [defined |-> TRUE, ids |-> {"aborted", "invalid_options", "request_error"}],
   [defined |-> TRUE,
    ids |-> {"timeout", "invalid_json", "response_validation_error",
             "invalid_response", "hook_cb_error"}]}

\* retry policies whose callbacks return (condition: an arbitrary predicate)
RetryPolicies ==
  {NoRetry} \cup
  [present : {TRUE}, maxRetries : 0..MaxRetriesBound,
   originalMaxRetries : {Undefined}, retryOnErrIds : RetryOnErrIdsChoices,
   delayMs : {"number"}, delay : {0}, condition : {"absent", "predicate"},
   onRetry : {"returns"}]

\* valid and invalid inputs, every failure point of the pipeline, retries
RetryConfigs ==
  [pathOrUrl : {"api/users", "/leading"}, host : Hosts,
   disablePathValidation : {FALSE}, payload : {FALSE}, formData : {"none"},
   method : {"GET"}, jsonPathParams : {"none"},
   jsonResponse : BOOLEAN, responseSchema : {TRUE},
   errorResponseSchema : BOOLEAN, getMessageFromRequestError : {"absent"},
   responseIsValid : {"absent", "error"},
   onRequest : {"returns", "throws"}, onResponse : {"returns", "throws"},
   onError : Callbacks,
   onRequestEdits : {"none"},
   contentTypeHeader : {"none"}, validateMayThrow : {FALSE},
   timeoutMs : {0}, signal : {"absent"}, fetcher : {"custom"},
   logger : {"undefined"},
   retry : RetryPolicies]

\* the state before typedFetch is invoked with one of the configurations
InitCall(configs) ==
  /\ options \in configs
  /\ pc = "init"
  /\ response = NoResponse
  /\ pending = NoPending
  /\ result = Pending
  /\ calls = NoCalls
  /\ failed = [id \in ErrorIds |-> 0]
  /\ lastError = NoError
  /\ onErrorArg = NoError
  /\ lastCondition = "not called"
  /\ nextInst = 1
  /\ now = 0
  /\ startTimestamp = Undefined
  /\ callStart = Undefined
  /\ abort = NoAbort
  /\ globalDefaults = NoDefaults
  /\ bound = Unbound
  /\ seen = NoneSeen
  /\ ctx = [condition |-> NoContext, onRetry |-> NoContext]
  /\ request = NoRequest
  /\ trace = <<>>
  /\ callerOptions = options
  /\ callNo = 1
  /\ devLogId = 0
  /\ logIds = <<>>

InitWith(configs) ==
  /\ InitCall(configs)
  /\ hdr = NoHeaderState

Init == InitWith(RetryConfigs)

Spec == Init /\ [][Next]_vars

\* every input rule, alone and combined, with and without a retry policy
\* that lists invalid_options
InputConfigs ==
  [pathOrUrl : Paths, host : Hosts,
   disablePathValidation : BOOLEAN, payload : BOOLEAN,
   formData : {"none", "instance", "object", "unserialisable"},
   method : {"GET", "POST", "DELETE"},
   jsonPathParams : {"none", "serialisable", "cyclic"},
   jsonResponse : BOOLEAN, responseSchema : {FALSE},
   errorResponseSchema : BOOLEAN, getMessageFromRequestError : {"absent"},
   responseIsValid : {"absent"},
   onRequest : {"returns"}, onResponse : {"returns"}, onError : {"returns"},
   onRequestEdits : {"none"},
   contentTypeHeader : {"none", "Content-Type"}, validateMayThrow : {FALSE},
   timeoutMs : {0}, signal : {"absent"}, fetcher : {"custom"},
   logger : {"undefined"},
   retry : {NoRetry,
            [present |-> TRUE, maxRetries |-> 1, originalMaxRetries |-> Undefined,
             retryOnErrIds |->
               [defined |-> TRUE,
                ids |-> {"invalid_options", "network_or_cors_error"}],
             delayMs |-> "function", delay |-> 0, condition |-> "absent",
             onRetry |-> "returns"]}]

InitInputs == InitWith(InputConfigs)

SpecInputs == InitInputs /\ [][Next]_vars

\* every way a response can be decoded, with hooks that return or throw
ResponseConfigs ==
  [pathOrUrl : {"api/users"}, host : {"http://test.com"},
   disablePathValidation : {FALSE}, payload : {FALSE}, formData : {"none"},
   method : {"GET"}, jsonPathParams : {"none"},
   jsonResponse : BOOLEAN, responseSchema : BOOLEAN,
   errorResponseSchema : BOOLEAN, getMessageFromRequestError : Callbacks,
   responseIsValid : {"absent", "valid", "error", "throws"},
   onRequest : {"returns"}, onResponse : Callbacks, onError : Callbacks,
   onRequestEdits : {"none"},
   contentTypeHeader : {"none"}, validateMayThrow : {FALSE},
   timeoutMs : {0}, signal : {"absent"}, fetcher : {"custom"},
   logger : {"undefined"},
   retry : {NoRetry} \cup
           [present : {TRUE}, maxRetries : {1},
            originalMaxRetries : {Undefined},
            retryOnErrIds : {[defined |-> FALSE, ids |-> {}]},
            delayMs : {"number"}, delay : {0}, condition : {"absent"},
            onRetry : Callbacks]]

InitResponses == InitWith(ResponseConfigs)

SpecResponses == InitResponses /\ [][Next]_vars

\* timeouts, caller signals, back-off delays, the default and custom fetchers
EnvConfigs ==
  [pathOrUrl : {"api/users"}, host : {"http://test.com"},
   disablePathValidation : {FALSE}, payload : {FALSE}, formData : {"none"},
   method : {"GET"}, jsonPathParams : {"none"},
   jsonResponse : {TRUE}, responseSchema : {FALSE},
   errorResponseSchema : {FALSE}, getMessageFromRequestError : {"absent"},
   responseIsValid : {"absent"},
   onRequest : {"returns"}, onResponse : {"absent"}, onError : {"returns"},
   onRequestEdits : {"none"},
   contentTypeHeader : {"none"}, validateMayThrow : {FALSE},
   timeoutMs : {0, 2}, signal : {"absent", "present"},
   fetcher : {"undefined", "custom"}, logger : {"undefined"},
   retry : {NoRetry} \cup
           [present : {TRUE}, maxRetries : 1..MaxRetriesBound,
            originalMaxRetries : {Undefined},
            retryOnErrIds :
              {[defined |-> FALSE, ids |-> {}],
               [defined |-> TRUE,
                ids |-> {"timeout", "aborted", "network_or_cors_error"}]},
            delayMs : {"number"}, delay : {0, 1},
            condition : {"absent", "predicate"}, onRetry : {"returns"}]]

InitEnv == InitWith(EnvConfigs)

SpecEnv == InitEnv /\ [][NextEnv]_vars

\* calls that rely on the global defaults or bring their own fetcher and logger
DefaultsConfigs ==
  [pathOrUrl : {"api/users"}, host : {"http://test.com"},
   disablePathValidation : {FALSE}, payload : {FALSE}, formData : {"none"},
   method : {"GET"}, jsonPathParams : {"none"},
   jsonResponse : {TRUE}, responseSchema : {FALSE},
   errorResponseSchema : {FALSE}, getMessageFromRequestError : {"absent"},
   responseIsValid : {"absent"},
   onRequest : {"returns"}, onResponse : {"absent"}, onError : {"returns"},
   onRequestEdits : {"none"},
   contentTypeHeader : {"none"}, validateMayThrow : {FALSE},
   timeoutMs : {0}, signal : {"absent"},
   fetcher : {"undefined", "custom"}, logger : {"undefined", "custom"},
   retry : {NoRetry} \cup
           [present : {TRUE}, maxRetries : 1..MaxRetriesBound,
            originalMaxRetries : {Undefined},
            retryOnErrIds : {[defined |-> FALSE, ids |-> {}]},
            delayMs : {"number"}, delay : {0},
            condition : {"absent"}, onRetry : {"returns"}]]

InitDefaults == InitWith(DefaultsConfigs)

SpecDefaults == InitDefaults /\ [][NextDefaults]_vars

\* callbacks and schemas that throw, next to hooks that throw
CallbackConfigs ==
  [pathOrUrl : {"api/users"}, host : {"http://test.com"},
   disablePathValidation : {FALSE}, payload : {FALSE}, formData : {"none"},
   method : {"GET"}, jsonPathParams : {"none"},
   jsonResponse : {TRUE}, responseSchema : {TRUE},
   errorResponseSchema : {TRUE},
   getMessageFromRequestError : {"returns", "throws"},
   responseIsValid : {"valid", "throws"},
   onRequest : {"returns", "throws"}, onResponse : {"throws"},
   onError : {"throws"},
   onRequestEdits : {"none"},
   contentTypeHeader : {"none"}, validateMayThrow : BOOLEAN,
   timeoutMs : {0}, signal : {"absent"}, fetcher : {"custom"},
   logger : {"undefined"},
   retry : [present : {TRUE}, maxRetries : {1},
            originalMaxRetries : {Undefined},
            retryOnErrIds : {[defined |-> FALSE, ids |-> {}]},
            delayMs : {"number", "function", "throws"}, delay : {0},
            condition : {"absent", "predicate", "throws"},
            onRetry : {"throws"}]]

InitCallbacks == InitWith(CallbackConfigs)

SpecCallbacks == InitCallbacks /\ [][Next]_vars

\* hooks, a logger and a retry policy with all of its callbacks
OrderConfigs ==
  [pathOrUrl : {"api/users"}, host : {"http://test.com"},
   disablePathValidation : {FALSE}, payload : {FALSE}, formData : {"none"},
   method : {"GET"}, jsonPathParams : {"none"},
   jsonResponse : {TRUE}, responseSchema : {FALSE},
   errorResponseSchema : {FALSE}, getMessageFromRequestError : {"absent"},
   responseIsValid : {"absent"},
   onRequest : Callbacks, onResponse : {"absent", "returns"},
   onError : {"absent", "returns"},
   onRequestEdits : {"none"},
   contentTypeHeader : {"none"}, validateMayThrow : {FALSE},
   timeoutMs : {0}, signal : {"absent"}, fetcher : {"custom"},
   logger : {"undefined", "custom"},
   retry : {NoRetry} \cup
           [present : {TRUE}, maxRetries : 0..MaxRetriesBound,
            originalMaxRetries : {Undefined},
            retryOnErrIds :
              {[defined |-> FALSE, ids |-> {}],
               [defined |-> TRUE,
                ids |-> {"hook_cb_error", "invalid_json", "request_error"}]},
            delayMs : {"number", "function"}, delay : {0},
            condition : {"absent", "predicate"},
            onRetry : {"absent", "returns"}]]

InitOrder == InitWith(OrderConfigs)

SpecOrder == InitOrder /\ [][Next]_vars

\* an options object that the caller uses for more than one call
ReuseConfigs ==
  [pathOrUrl : {"api/users"}, host : {"http://test.com"},
   disablePathValidation : {FALSE}, payload : {FALSE}, formData : {"none"},
   method : {"GET"}, jsonPathParams : {"none"},
   jsonResponse : BOOLEAN, responseSchema : {FALSE},
   errorResponseSchema : {FALSE}, getMessageFromRequestError : {"absent"},
   responseIsValid : {"absent"},
   onRequest : {"returns"}, onResponse : {"returns"}, onError : {"returns"},
   onRequestEdits : {"none"},
   contentTypeHeader : {"none"}, validateMayThrow : {FALSE},
   timeoutMs : {0}, signal : {"absent"}, fetcher : {"custom"},
   logger : {"undefined"},
   retry : {NoRetry} \cup
           [present : {TRUE}, maxRetries : 0..MaxRetriesBound,
            originalMaxRetries : {Undefined},
            retryOnErrIds : {[defined |-> FALSE, ids |-> {}]},
            delayMs : {"number"}, delay : {0},
            condition : {"absent", "predicate"},
            onRetry : {"returns"}]]

InitReuse == InitWith(ReuseConfigs)

SpecReuse == InitReuse /\ [][NextReuse]_vars

\* a logger, taken from the options or from nowhere, with inputs that fail
\* validation, hooks and schemas that throw, and retries of every kind
LoggerConfigs ==
  [pathOrUrl : {"api/users"}, host : Hosts,
   disablePathValidation : {FALSE}, payload : BOOLEAN, formData : {"none"},
   method : {"GET", "POST"}, jsonPathParams : {"none", "cyclic"},
   jsonResponse : BOOLEAN, responseSchema : {TRUE},
   errorResponseSchema : {FALSE}, getMessageFromRequestError : {"absent"},
   responseIsValid : {"absent", "error"},
   onRequest : {"returns", "throws"}, onResponse : {"returns"},
   onError : {"returns"},
   onRequestEdits : {"none"},
   contentTypeHeader : {"none"}, validateMayThrow : BOOLEAN,
   timeoutMs : {0}, signal : {"absent"}, fetcher : {"custom"},
   logger : {"undefined", "custom"},
   retry : {NoRetry,
            [present |-> TRUE, maxRetries |-> 1, originalMaxRetries |-> Undefined,
             retryOnErrIds |->
               [defined |-> TRUE,
                ids |-> {"invalid_options", "hook_cb_error", "request_error",
                         "network_or_cors_error", "invalid_json",
                         "invalid_response"}],
             delayMs |-> "number", delay |-> 0, condition |-> "predicate",
             onRetry |-> "returns"]}]

InitLogger == InitWith(LoggerConfigs)

SpecLogger == InitLogger /\ [][NextLogger]_vars

\* every answer of responseIsValid, one that returns nothing included, for
\* every way a response can be decoded
ValidityConfigs ==
  [pathOrUrl : {"api/users"}, host : {"http://test.com"},
   disablePathValidation : {FALSE}, payload : {FALSE}, formData : {"none"},
   method : {"GET"}, jsonPathParams : {"none"},
   jsonResponse : BOOLEAN, responseSchema : BOOLEAN,
   errorResponseSchema : BOOLEAN, getMessageFromRequestError : {"absent"},
   responseIsValid : {"absent", "valid", "error", "throws", "undefined"},
   onRequest : {"returns"}, onResponse : {"absent", "returns"},
   onError : {"returns"},
   onRequestEdits : {"none"},
   contentTypeHeader : {"none"}, validateMayThrow : {FALSE},
   timeoutMs : {0}, signal : {"absent"}, fetcher : {"custom"},
   logger : {"undefined"},
   retry : {NoRetry} \cup
           [present : {TRUE}, maxRetries : {1},
            originalMaxRetries : {Undefined},
            retryOnErrIds : {[defined |-> FALSE, ids |-> {}]},
            delayMs : {"number"}, delay : {0}, condition : {"absent"},
            onRetry : {"returns"}]]

InitValidity == InitWith(ValidityConfigs)

SpecValidity == InitValidity /\ [][Next]_vars

\* an onRequest that edits the fetchOptions it is given in every way, for
\* requests with and without a body and a signal
HookConfigs ==
  [pathOrUrl : {"api/users"}, host : {"http://test.com"},
   disablePathValidation : {FALSE}, payload : BOOLEAN, formData : {"none"},
   method : {"POST"}, jsonPathParams : {"none"},
   jsonResponse : {TRUE}, responseSchema : {FALSE},
   errorResponseSchema : {FALSE}, getMessageFromRequestError : {"absent"},
   responseIsValid : {"absent"},
   onRequest : Callbacks, onResponse : {"returns"}, onError : {"returns"},
   onRequestEdits : OnRequestEdits,
   contentTypeHeader : {"none"}, validateMayThrow : {FALSE},
   timeoutMs : {0, 2}, signal : {"absent", "present"}, fetcher : {"custom"},
   logger : {"undefined"},
   retry : {NoRetry} \cup
           [present : {TRUE}, maxRetries : {1},
            originalMaxRetries : {Undefined},
            retryOnErrIds : {[defined |-> FALSE, ids |-> {}]},
            delayMs : {"number"}, delay : {0}, condition : {"absent"},
            onRetry : {"returns"}]]

InitHooks == InitWith(HookConfigs)

SpecHooks == InitHooks /\ [][Next]_vars

\* every failure point with retry policies that retry nothing, the default
\* kinds or every kind, with and without a condition
LiveConfigs ==
  [pathOrUrl : {"api/users", "/leading"}, host : {"http://test.com"},
   disablePathValidation : {FALSE}, payload : {FALSE}, formData : {"none"},
   method : {"GET"}, jsonPathParams : {"none"},
   jsonResponse : {TRUE}, responseSchema : {TRUE},
   errorResponseSchema : {FALSE}, getMessageFromRequestError : {"absent"},
   responseIsValid : {"absent", "error"},
   onRequest : {"returns", "throws"}, onResponse : {"returns"},
   onError : {"returns"},
   onRequestEdits : {"none"},
   contentTypeHeader : {"none"}, validateMayThrow : {FALSE},
   timeoutMs : {0}, signal : {"absent"}, fetcher : {"custom"},
   logger : {"undefined"},
   retry : {NoRetry} \cup
           [present : {TRUE}, maxRetries : 0..MaxRetriesBound,
            originalMaxRetries : {Undefined},
            retryOnErrIds : {[defined |-> FALSE, ids |-> {}],
                             [defined |-> TRUE, ids |-> {}],
                             [defined |-> TRUE, ids |-> ErrorIds]},
            delayMs : {"number", "function"}, delay : {0},
            condition : {"absent", "predicate"},
            onRetry : {"returns"}]]

InitLive == InitWith(LiveConfigs)

\* every pending promise of the call settles and every timer fires: weak
\* fairness of Next, with its enabledness written out (in every position
\* but "done" a promise or a timer of the call is pending, and its
\* settlement is a step of Next)
Fairness == []<>(pc = "done") \/ []<><<Next>>_vars

SpecLive == InitLive /\ [][Next]_vars /\ Fairness

\* the headers an error can be constructed with
HeaderInputs ==
  {NoHeaders} \cup
  [defined : {TRUE},
   entries : [HeaderKeys -> {Null, Absent, <<"a">>}] \cup
             {[k \in HeaderKeys |-> IF k = "authorization" THEN v ELSE w] :
                v \in HeaderValues, w \in {Null, <<"b", "b">>}}]

InitHeaders ==
  /\ InitCall({CHOOSE c \in ResponseConfigs : TRUE})
  /\ hdr \in {NewHeaderState(headers) : headers \in HeaderInputs}

SpecHeaders == InitHeaders /\ [][NextHeaders]_vars

(***************************************************************************)
(* Properties                                                              *)
(***************************************************************************)
\* the retryable set of the call
RetrySet ==
  IF options.retry.retryOnErrIds.defined
    THEN options.retry.retryOnErrIds.ids ELSE {"request_error", "network_or_cors_error"}

\* the kinds an attempt gets from the transport and its response
TransportKinds == ErrorIds \ {"invalid_options", "hook_cb_error"}

\* the call has resolved Err
ResolvedErr == pc = "done" /\ result.state = "err"

\* kind, status, message and response body of two errors agree
SameError(e1, e2) ==
  /\ e1.id = e2.id
  /\ e1.status = e2.status
  /\ e1.message = e2.message
  /\ e1.response = e2.response

\* every attempt so far failed, with a kind that the transport produced and
\* that is retryable, and the condition never refused a retry
EveryAttemptFailedRetryable ==
  /\ \A id \in ErrorIds : failed[id] > 0 => id \in RetrySet \cap TransportKinds
  /\ lastCondition # "false"

C2_NeverRetried ==
  pc = "sleeping" => pending.error.id \notin {"invalid_options", "aborted"}

\* C3: whatever the transport, the body read, the JSON parse and the schemas
\* do, the promise fulfils with Ok or with Err carrying an error whose kind
\* is in the closed set; it never rejects.
C3_NeverRejects ==
  /\ result.state \in {"pending", "ok", "err"}
  /\ result.state = "err" => result.error.id \in ErrorIds
  /\ pc = "done" <=> result.state # "pending"

C3_Witness ==
  /\ ResolvedErr
  /\ result.error.id = "network_or_cors_error"
  /\ failed["invalid_json"] > 0
  /\ calls.fetcher = 2

\* C4: when the first attempt fails with a network fault and the second
\* succeeds, the call resolves Ok after exactly 2 transport invocations,
\* onError is never invoked, onRequest is invoked twice and onResponse once.
C4_FailOnceThenSucceed ==
  LET oneNetworkFault ==
        failed = [id \in ErrorIds |-> IF id = "network_or_cors_error" THEN 1 ELSE 0]
  IN /\ (/\ pc = "done"
         /\ oneNetworkFault
         /\ options.retry.present
         /\ MaxAttempts(options) >= 1
         /\ "network_or_cors_error" \in RetrySet
         /\ lastCondition # "false")
        => result.state = "ok"
     /\ (pc = "done" /\ result.state = "ok" /\ oneNetworkFault)
        => /\ calls.fetcher = 2
           /\ calls.onError = 0
           /\ calls.onRequest = 2
           /\ calls.onResponse = 1
           /\ options.retry.present /\ MaxAttempts(options) >= 1

C4_Witness ==
  /\ pc = "done"
  /\ result.state = "ok"
  /\ failed["network_or_cors_error"] = 1
  /\ calls.fetcher = 2
  /\ calls.onRequest = 2
  /\ calls.onResponse = 1
  /\ options.onError = "returns"

\* C5: onError is invoked at most once per call, and only when the call ends
\* in Err after a negative retry decision: never while an attempt is
\* followed by a retry, never when the call resolves Ok.
C5_OnErrorOnlyAtFinalFailure ==
  /\ calls.onError <= 1
  /\ calls.onError = 1 =>
       /\ ResolvedErr
       /\ ~RetryGuard(options.retry, lastError.id, lastCondition # "false")
  /\ result.state = "ok" => calls.onError = 0

C5_Witness ==
  /\ ResolvedErr
  /\ calls.onError = 1
  /\ calls.fetcher = 3
  /\ calls.sleep = 2

\* C6: whenever the call resolves Err and onError is configured, onError was
\* invoked exactly once, with the error instance the Result carries.
C6_OnErrorForEveryErr ==
  (ResolvedErr /\ options.onError # "absent")
  => /\ calls.onError = 1
     /\ onErrorArg = result.error

\* C7: a call that ends in Err invalid_options has made no transport
\* invocation, and the error's status is 0.
C7_InvalidOptionsBeforeTransport ==
  (ResolvedErr /\ result.error.id = "invalid_options")
  => /\ calls.fetcher = 0
     /\ calls.getText = 0
     /\ result.error.status = 0

C7_Witness ==
  /\ ResolvedErr
  /\ result.error.id = "invalid_options"
  /\ result.error.message =
       "Payload or multiPart is not allowed for GET or DELETE requests"
  /\ result.error.retryAttempt = 1
  /\ calls.fetcher = 0

\* C8: when all retries are exhausted, the Err carries kind, status, message
\* and response body of the error of the last attempt performed.
C8_LastAttemptError ==
  (/\ ResolvedErr
   /\ options.retry.present
   /\ MaxAttempts(options) >= 1
   /\ options.retry.maxRetries = 0)
  => /\ SameError(result.error, lastError)
     /\ result.error.retryAttempt = MaxAttempts(options)
     /\ result.error.id = "request_error" => result.error.status = response.status

C8_Witness ==
  /\ ResolvedErr
  /\ MaxAttempts(options) = 2
  /\ options.retry.maxRetries = 0
  /\ failed["network_or_cors_error"] = 1
  /\ failed["request_error"] = 2
  /\ result.error.status = 500
  /\ result.error.response = "Object{a:1}"

\* C9: when retry.condition returns false for a failed attempt, the call ends
\* there: no sleep, no onRetry, no further transport invocation, and the
\* Err carries that attempt's error, however many retries remain.
C9_ConditionFalseEndsCall ==
  lastCondition = "false"
  => /\ ResolvedErr
     /\ SameError(result.error, lastError)
     /\ calls.sleep = RetryAttempt(options)
     /\ calls.onRetry = RetryAttempt(options)
     /\ calls.fetcher <= RetryAttempt(options) + 1

C9_Witness ==
  /\ lastCondition = "false"
  /\ ResolvedErr
  /\ options.retry.maxRetries = 2
  /\ result.error.id = "request_error"
  /\ result.error.status = 404
  /\ calls.fetcher = 1
  /\ calls.sleep = 0

\* C10: with retryOnErrIds unset, errorResult sleeps for a retry only after a
\* request_error or a network_or_cors_error; a timeout, invalid_json,
\* response_validation_error, invalid_response or hook_cb_error ends the
\* call with that error even though retries remain.
C10_DefaultRetryableKinds ==
  (options.retry.present /\ ~options.retry.retryOnErrIds.defined)
  => /\ pc = "sleeping" =>
          pending.error.id \in {"request_error", "network_or_cors_error"}
     /\ lastError.id \in {"timeout", "invalid_json", "response_validation_error",
                          "invalid_response", "hook_cb_error"}
          => ResolvedErr /\ result.error.id = lastError.id

C10_Witness ==
  /\ options.retry.present
  /\ ~options.retry.retryOnErrIds.defined
  /\ options.retry.maxRetries >= 1
  /\ lastError.id = "timeout"
  /\ ResolvedErr
  /\ result.error.id = "timeout"
  /\ calls.sleep = 1

\* the current attempt has ended in errorResult
AttemptFailed == pc \in {"sleeping", "done"} /\ lastError.id # "none"

\* C11: when the timer of timeoutMs fires while the default transport has
\* not settled (and the caller's signal has not fired), the attempt fails
\* with kind timeout, not aborted.
C11_TimeoutKind ==
  (/\ AttemptFailed
   /\ HonoursSignal
   /\ abort.reason = "TimeoutError"
   /\ seen.status = Undefined)
  => lastError.id = "timeout"

\* C12: a rejected transport invocation is classified by the fault name
\* alone: TimeoutError gives timeout, AbortError gives aborted, any other
\* fault gives network_or_cors_error; the error has status 0, no response
\* body and the fault as cause, and so has the error a call ends with.
C12_ClassifiedByFaultName ==
  LET kind == IF seen.fault = "TimeoutError" THEN "timeout"
              ELSE IF seen.fault = "AbortError" THEN "aborted"
              ELSE "network_or_cors_error"
      asClassified(e) ==
        /\ e.id = kind
        /\ e.status = 0
        /\ e.response = "undefined"
        /\ e.cause = seen.fault
  IN /\ pc \in {"awaitingTransport", "readingBody"} => seen.fault = "none"
     /\ (AttemptFailed /\ seen.fault # "none") => asClassified(lastError)
     /\ (ResolvedErr /\ seen.fault # "none") => asClassified(result.error)

C12_Witness ==
  /\ ResolvedErr
  /\ seen.fault = "AbortError"
  /\ result.error.id = "aborted"
  /\ result.error.cause = "AbortError"
  /\ result.error.status = 0
  /\ calls.fetcher = 2

\* the current attempt got a response with a status outside [200,300) and a
\* readable body that, in JSON mode, parses and is accepted by the error
\* schema if that was consulted
ErrorStatusSeen ==
  /\ pc \in {"sleeping", "done"}
  /\ seen.status # Undefined
  /\ ~(seen.status >= 200 /\ seen.status < 300)
  /\ seen.text \in BodyTexts
  /\ options.jsonResponse =>
       /\ JsonParse(seen.text).ok
       /\ seen.errVerdict \in {"none", "value"}

\* the error is a request_error with the seen status and body
IsRequestErrorOfSeen(e) ==
  /\ e.id = "request_error"
  /\ e.status = seen.status
  /\ e.response = IF options.jsonResponse
                    THEN JsonParse(seen.text).value ELSE seen.text

IsValidationErrorOfSeen(e, issues) ==
  /\ e.id = "response_validation_error"
  /\ e.schemaIssues = issues
  /\ e.response = "Object{a:1}"
  /\ e.status = seen.status

\* C14: in JSON mode with a responseSchema the call resolves Ok only with
\* the value the schema output for the parsed body; when the schema reports
\* issues on a successful-status response the attempt fails with
\* response_validation_error carrying those issues as schemaIssues, the
\* parsed body as response and the response's status.
C14_OnlyValidatedValues ==
  (options.jsonResponse /\ options.responseSchema)
  => /\ (pc = "done" /\ result.state = "ok")
          => /\ seen.respVerdict = "value"
             /\ result.value = "Validated{a:1}"
     /\ (pc \in {"sleeping", "done"} /\ seen.respVerdict = "issues")
          => /\ seen.status >= 200 /\ seen.status < 300
             /\ IsValidationErrorOfSeen(lastError, "[{path:[a],message:Invalid}]")
             /\ ResolvedErr
             /\ IsValidationErrorOfSeen(result.error, "[{path:[a],message:Invalid}]")

C14_Witness ==
  /\ options.jsonResponse
  /\ options.responseSchema
  /\ seen.respVerdict = "issues"
  /\ ResolvedErr
  /\ result.error.id = "response_validation_error"
  /\ result.error.schemaIssues = "[{path:[a],message:Invalid}]"
  /\ result.error.status = 200

\* C15: when the body is not valid JSON (JSON mode) the attempt fails with
\* invalid_json whose status is 400 if the response's status was a success
\* status and the response's own status otherwise.
C15_InvalidJsonStatus ==
  (/\ pc \in {"sleeping", "done"}
   /\ options.jsonResponse
   /\ seen.text \in BodyTexts
   /\ ~JsonParse(seen.text).ok
   /\ options.responseIsValid \in {"absent", "valid"})
  => /\ lastError.id = "invalid_json"
     /\ lastError.status =
          IF seen.status >= 200 /\ seen.status < 300 THEN 400 ELSE seen.status

SuccessSeen ==
  /\ seen.status # Undefined
  /\ seen.status >= 200 /\ seen.status < 300
  /\ seen.text \in BodyTexts
  /\ options.responseIsValid \in {"absent", "valid"}
  /\ options.jsonResponse =>
       /\ JsonParse(seen.text).ok
       /\ options.responseSchema => seen.respVerdict = "value"

\* C17: onResponse, onRetry and onError returning or throwing makes no
\* difference: a successful response gives Ok, a granted retry is followed
\* by the next attempt, the Err is the finalized last error and is the one
\* given to onError, the promise rejects only through
\* getMessageFromRequestError, and an Ok never comes with an onError call.
C17_HookExceptionsSwallowed ==
  /\ (pc = "done" /\ SuccessSeen) => result.state = "ok"
  /\ calls.onRetry =
       IF options.retry.onRetry = "absent" THEN 0 ELSE RetryAttempt(options)
  /\ (pc \notin {"init", "sleeping"} /\ InputViolation(options) = "")
       => calls.fetcher = RetryAttempt(options) + 1
  /\ ResolvedErr
       => /\ SameError(result.error, lastError)
          /\ options.onError # "absent" =>
               calls.onError = 1 /\ onErrorArg = result.error
  /\ result.state = "rejected" => options.getMessageFromRequestError = "throws"
  /\ result.state = "ok" => calls.onError = 0

C17_Witness ==
  /\ options.onResponse = "throws"
  /\ options.retry.onRetry = "throws"
  /\ options.onError = "throws"
  /\ calls.onResponse = 2
  /\ calls.onRetry = 1
  /\ calls.fetcher = 2
  /\ calls.onError = 1
  /\ ResolvedErr
  /\ result.error.id = "request_error"
  /\ onErrorArg = result.error

\* C18: every attempt of a call uses the fetcher and the logger that the
\* first invocation took from the options and the global defaults.
C18_DefaultsCapturedOnce ==
  /\ bound.fetcher = bound.firstFetcher
  /\ bound.logger = bound.firstLogger

IsMaskOf(m, v) ==
  LET n == Len(v)
      half == IF n % 2 = 0 THEN n \div 2 ELSE n \div 2 + 1
      kept == IF half > 4 THEN 4 ELSE half
  IN /\ Len(m) = n
     /\ \A i \in 1..n : m[i] = IF i <= kept THEN v[i] ELSE "*"

\* the exposed headers hold a mask of every header that was given with a
\* string value, and nothing else
ExposesMasked(exposed) ==
  \A k \in HeaderKeys :
    IF hdr.given.defined /\ hdr.given.entries[k] \notin {Null, Absent}
      THEN exposed.defined /\ IsMaskOf(exposed.entries[k], hdr.given.entries[k])
      ELSE exposed.entries[k] = Absent

\* C20: for every header value v of length n the value exposed by
\* error.headers and toJSON has length n, its first min(4, ceil(n/2))
\* characters equal those of v and the rest are '*'; null-valued headers
\* are omitted; getUnmaskedHeaders returns the original values after any
\* number of toJSON calls.
C20_HeadersMasked ==
  /\ hdr.getterCalls > 0 => ExposesMasked(hdr.getter)
  /\ hdr.toJSONCalls > 0 => ExposesMasked(hdr.json)
  /\ hdr.unmaskedCalls > 0 => hdr.unmasked = hdr.given
  /\ hdr.rawHeaders = hdr.given

C20_Witness ==
  /\ hdr.toJSONCalls = 2
  /\ hdr.unmaskedCalls = 1
  /\ hdr.given.entries["authorization"] =
       <<"a", "b", "b", "a", "a", "b", "a", "b", "b">>
  /\ hdr.json.entries["authorization"] =
       <<"a", "b", "b", "a", "*", "*", "*", "*", "*">>
  /\ hdr.given.entries["x-trace"] = Null
  /\ hdr.json.entries["x-trace"] = Absent
  /\ hdr.unmasked = hdr.given

\* C21: whenever the body handed to the fetcher is form-data, built from an
\* object or passed as a FormData instance, the headers handed to the
\* fetcher hold no Content-Type, even if the caller supplied one.
C21_NoContentTypeWithFormData ==
  (calls.fetcher > 0 /\ request.body = "FormData")
  => request.contentType = "none"

\* C22: a string path that is itself an absolute URL, given together with a
\* host, fails with invalid_options and no transport invocation, whatever
\* disablePathValidation is.
C22_FullUrlWithHost ==
  (/\ pc # "init"
   /\ IsString(options.pathOrUrl)
   /\ IncludesScheme(options.pathOrUrl)
   /\ options.host # "")
  => /\ calls.fetcher = 0
     /\ lastError.id = "invalid_options"

\* C23: the promise never rejects, whichever caller-supplied function
\* throws: retry.condition, a delayMs function, getMessageFromRequestError,
\* a schema's validate, or a hook.
C23_CallbackExceptionsGiveResult ==
  result.state # "rejected"

\* the messages of the rule groups, in the order that is claimed
RuleMessages ==
  <<{"Invalid url, path or host param"},
    {"Path should not start or end with /",
     "Full url passed as string and host param should not be used together",
     "Path should not contain //"},
    {"Cannot use both payload and multiPart"},
    {"Payload or multiPart is not allowed for GET or DELETE requests"},
    {"errorResponseSchema is not allowed when jsonResponse is false"}>>

\* whether the options violate the i-th rule group
RuleViolated(i) ==
  LET o == options
  IN CASE i = 1 -> ~UrlResolves(o.pathOrUrl, o.host)
       [] i = 2 -> /\ ~o.disablePathValidation
                   /\ IsString(o.pathOrUrl)
                   /\ \/ StartsOrEndsWithSlash(o.pathOrUrl)
                      \/ o.host # "" /\ IncludesScheme(o.pathOrUrl)
                      \/ PathnameHasDoubleSlash(o.pathOrUrl)
       [] i = 3 -> o.payload /\ o.formData # "none"
       [] i = 4 -> o.method \in {"GET", "DELETE"}
                     /\ (o.payload \/ o.formData # "none")
       [] i = 5 -> ~o.jsonResponse /\ o.errorResponseSchema

\* C24: when several input rules are violated at once, the invalid_options
\* error is that of the first violated rule in the order URL resolution,
\* path shape, payload/form-data exclusivity, method/body compatibility,
\* error-schema/raw-text compatibility; query parameters are not applied,
\* the body is not encoded and onRequest and the fetcher are not invoked.
C24_FirstViolatedRule ==
  \A i \in 1..5 :
    (pc # "init" /\ RuleViolated(i) /\ \A j \in 1..(i - 1) : ~RuleViolated(j))
    => /\ lastError.id = "invalid_options"
       /\ lastError.message \in RuleMessages[i]
       /\ ~request.queryApplied
       /\ request.body = "undefined"
       /\ calls.onRequest = 0
       /\ calls.fetcher = 0
       /\ pc = "done" => ResolvedErr /\ result.error.message = lastError.message

C24_Witness ==
  /\ ResolvedErr
  /\ options.payload
  /\ options.formData = "unserialisable"
  /\ options.method = "GET"
  /\ ~options.jsonResponse
  /\ options.errorResponseSchema
  /\ options.jsonPathParams = "cyclic"
  /\ result.error.message = "Cannot use both payload and multiPart"
  /\ ~request.queryApplied
  /\ calls.onRequest = 0

\* the names of the entries of a trace
Names(t) == [i \in 1..Len(t) |-> t[i].ev]

\* the entries of the trace that have one of the names
Only(evs) == LET keep(e) == e.ev \in evs IN SelectSeq(trace, keep)

\* a sequence with the name if the callback is configured, else empty
If(configured, name) == IF configured THEN <<name>> ELSE <<>>

\* C25: within an attempt onRequest comes right before the transport
\* invocation, onResponse after the transport invocation and before the
\* Result, onError last; a single-attempt call with the three hooks has
\* hook trace [onRequest, onResponse] when it succeeds, [onRequest,
\* onResponse, onError] when it fails on an HTTP error status and
\* [onRequest, onError] when onRequest throws.
C25_HookOrder ==
  LET hooks == Names(Only({"onRequest", "onResponse", "onError"}))
      single == calls.sleep = 0 /\ pc = "done"
                  /\ options.onRequest # "absent"
                  /\ options.onResponse # "absent"
                  /\ options.onError # "absent"
  IN /\ \A i \in 1..Len(trace) :
          /\ (trace[i].ev = "fetcher" /\ options.onRequest # "absent")
               => i > 1 /\ trace[i - 1].ev = "onRequest"
          /\ trace[i].ev = "onResponse"
               => \E j \in 1..(i - 1) :
                    /\ trace[j].ev = "fetcher"
                    /\ \A k \in (j + 1)..(i - 1) :
                         trace[k].ev \notin {"onRequest", "fetcher", "onError"}
          /\ trace[i].ev = "onError" => pc = "done" /\ i = Len(trace)
     /\ (single /\ result.state = "ok")
          => hooks = <<"onRequest", "onResponse">>
     /\ (single /\ ResolvedErr /\ result.error.id = "request_error")
          => hooks = <<"onRequest", "onResponse", "onError">>
     /\ (single /\ options.onRequest = "throws")
          => ResolvedErr /\ hooks = <<"onRequest", "onError">>

C25_Witness ==
  /\ calls.sleep = 0
  /\ ResolvedErr
  /\ result.error.id = "request_error"
  /\ Names(Only({"onRequest", "fetcher", "onResponse", "onError"}))
       = <<"onRequest", "fetcher", "onResponse", "onError">>

\* C26: each retry follows the order error end-log, condition, delay
\* computation, sleep, onRetry, then the next attempt (logger start,
\* onRequest, transport); onRetry is invoked exactly once per retry
\* performed, after the sleep and before the next transport invocation, and
\* never without a retry.
C26_RetryOrder ==
  LET o == options
      before ==
        If(o.logger # "undefined", "logError")
        \o If(o.retry.condition # "absent", "condition")
        \o If(o.retry.delayMs = "function", "delayMs")
        \o <<"sleep">>
      after ==
        If(o.retry.onRetry # "absent", "onRetry")
        \o If(o.logger # "undefined", "logStart")
        \o If(o.onRequest # "absent", "onRequest")
        \o If(o.onRequest # "throws", "fetcher")
      names == Names(trace)
      completed == IF pc = "sleeping" THEN calls.sleep - 1 ELSE calls.sleep
  IN /\ \A i \in 1..Len(trace) :
          trace[i].ev = "sleep"
          => /\ i >= Len(before)
             /\ SubSeq(names, i - Len(before) + 1, i) = before
             /\ IF i = Len(trace) THEN pc = "sleeping"
                ELSE /\ Len(trace) >= i + Len(after)
                     /\ SubSeq(names, i + 1, i + Len(after)) = after
     /\ Len(Only({"sleep"})) = calls.sleep
     /\ Len(Only({"onRetry"})) =
          IF o.retry.onRetry # "absent" THEN completed ELSE 0
     /\ calls.onRetry = Len(Only({"onRetry"}))

C26_Witness ==
  /\ pc = "done"
  /\ options.logger # "undefined"
  /\ options.retry.condition # "absent"
  /\ options.retry.delayMs = "function"
  /\ options.retry.onRetry # "absent"
  /\ options.onRequest = "returns"
  /\ calls.sleep = 2
  /\ calls.onRetry = 2
  /\ calls.fetcher = 3

\* C27: a delayMs function is called exactly once per retry performed with
\* the 1-indexed retry number, so its arguments over a call are 1, 2, ..., k
\* in that order; the retryAttempt values given to condition and onRetry
\* for those retries are the same numbers.
C27_DelayArguments ==
  LET delays == Only({"delayMs"})
      conditions == Only({"condition"})
      retries == Only({"onRetry"})
  IN /\ options.retry.delayMs = "function" => Len(delays) = calls.sleep
     /\ \A i \in 1..Len(delays) : delays[i].n = i
     /\ \A i \in 1..Len(conditions) : conditions[i].n = i
     /\ \A i \in 1..Len(retries) : retries[i].n = i
     /\ calls.condition > 0 => ctx.condition.retryAttempt = calls.condition
     /\ calls.onRetry > 0 => ctx.onRetry.retryAttempt = calls.onRetry

C27_Witness ==
  /\ pc = "done"
  /\ Names(Only({"delayMs"})) = <<"delayMs", "delayMs">>
  /\ Len(Only({"condition"})) >= 2
  /\ Len(Only({"onRetry"})) = 2
  /\ Only({"delayMs"})[2].n = 2
  /\ Only({"condition"})[2].n = 2
  /\ Only({"onRetry"})[2].n = 2

C29_CallerOptionsNotMutated ==
  /\ [][callerOptions' = callerOptions]_vars
  /\ [](/\ callerOptions.retry.originalMaxRetries = Undefined
        /\ pc = "init" => options = callerOptions
        /\ calls.sleep <= callerOptions.retry.maxRetries
        /\ (ResolvedErr /\ callerOptions.retry.present
              /\ EveryAttemptFailedRetryable)
             => /\ calls.sleep = callerOptions.retry.maxRetries
                /\ calls.fetcher = callerOptions.retry.maxRetries + 1
                /\ options.retry.maxRetries = 0)

C29_Witness ==
  /\ callNo = 2
  /\ ResolvedErr
  /\ EveryAttemptFailedRetryable
  /\ callerOptions.retry.maxRetries = 2
  /\ callerOptions.retry.originalMaxRetries = Undefined
  /\ options.retry.maxRetries = 0
  /\ options.retry.originalMaxRetries = 2
  /\ calls.fetcher = 3

\* C30 as stated: the errorDuration given to retry.onRetry is the time from
\* the attempt's start to the moment the error occurred, without the
\* back-off sleep that precedes onRetry, whether or not a condition is
\* configured; with a condition it is the value the condition got.
C30_ErrorDurationFixedAtError ==
  [][calls'.onRetry # calls.onRetry
       => /\ ctx'.onRetry.errorDuration =
               (pending.wakeAt - options.retry.delay)
               - (IF startTimestamp = Undefined THEN 0 ELSE startTimestamp)
          /\ options.retry.condition # "absent"
               => ctx'.onRetry.errorDuration = ctx.condition.errorDuration]_vars

\* the logger invocations and the calls of their closures, in order
LogNames == Names(Only({"logStart", "logSuccess", "logError"}))

\* the invocations of typedFetch so far in the call
AttemptsStarted ==
  IF pc = "init" THEN 0
  ELSE IF pc = "sleeping" THEN calls.sleep
  ELSE calls.sleep + 1

StrictlyIncreasing(ids) ==
  \A i \in 1..Len(ids) : \A j \in 1..Len(ids) : i < j => ids[i] < ids[j]

\* C32: the ids passed to the logger by every attempt of every logical call
\* of the process, interleaved or not, are pairwise distinct and strictly
\* increasing in invocation order.
C32_LogIdsIncrease ==
  /\ StrictlyIncreasing(logIds)
  /\ Len(logIds) = devLogId
  /\ Len(Only({"logStart"})) <= Len(logIds)

C32_Witness ==
  /\ pc = "done"
  /\ Len(Only({"logStart"})) = 2
  /\ Len(logIds) = 4
  /\ calls.sleep = 1

\* the transport invocations of the call that have not settled
InFlight == Len(Only({"fetcher"})) - Len(Only({"settled"}))

\* C33: a logical call has at most one transport invocation in flight; the
\* transport invocation of the next attempt starts only after the previous
\* one has settled, its error has been classified and the retry sleep has
\* completed.
C33_OneTransportInFlight ==
  /\ [](/\ InFlight \in {0, 1}
        /\ InFlight = 1 <=> pc = "awaitingTransport"
        /\ \A i \in 1..Len(trace) : \A j \in 1..Len(trace) :
             (i < j /\ trace[i].ev = "fetcher" /\ trace[j].ev = "fetcher")
             => \E k \in (i + 1)..(j - 1) : \E l \in (k + 1)..(j - 1) :
                  trace[k].ev = "settled" /\ trace[l].ev = "sleep")
  /\ [][calls'.fetcher # calls.fetcher
          => /\ calls'.fetcher = calls.fetcher + 1
             /\ InFlight = 0
             /\ pc \in {"init", "sleeping"}
             /\ pc = "sleeping"
                  => /\ now >= pending.wakeAt
                     /\ pending.error.id \in ErrorIds
                     /\ failed[pending.error.id] > 0]_vars

C33_Witness ==
  /\ pc = "awaitingTransport"
  /\ calls.fetcher = 3
  /\ InFlight = 1
  /\ now >= 2
  /\ options.retry.delay = 1

\* the caller's signal fires in this step
SignalFires == abort'.caller /\ ~abort.caller

\* C34: when the caller's signal fires during a retry sleep the sleep is not
\* cut short; after it one further attempt starts with the signal already
\* aborted, its transport invocation, honouring the signal, fails as
\* aborted, and with the default retryable set the call resolves Err
\* aborted without another attempt.
C34_AbortDuringSleep ==
  /\ []((/\ abort.during = "sleeping"
         /\ pc \notin {"sleeping", "awaitingTransport"}
         /\ HonoursSignal
         /\ ~options.retry.retryOnErrIds.defined)
        => /\ ResolvedErr
           /\ result.error.id = "aborted"
           /\ calls.fetcher = calls.sleep + 1
           /\ failed["aborted"] = 1)
  /\ [][/\ (SignalFires /\ pc = "sleeping")
             => pc' = "sleeping" /\ pending' = pending /\ calls' = calls
        /\ (pc = "sleeping" /\ pc' # "sleeping")
             => now >= pending.wakeAt
        /\ (pc = "sleeping" /\ pc' # "sleeping" /\ abort.caller)
             => /\ pc' = "awaitingTransport"
                /\ calls'.fetcher = calls.fetcher + 1
                /\ abort'.reason = "AbortError"
        /\ (pc = "awaitingTransport" /\ pc' # pc /\ abort.reason = "AbortError"
              /\ HonoursSignal)
             => /\ lastError'.id = "aborted"
                /\ calls'.fetcher = calls.fetcher
                /\ ~options.retry.retryOnErrIds.defined
                     => /\ pc' = "done"
                        /\ result'.state = "err"
                        /\ result'.error.id = "aborted"
                        /\ calls'.sleep = calls.sleep]_vars

C34_Witness ==
  /\ ResolvedErr
  /\ result.error.id = "aborted"
  /\ abort.during = "sleeping"
  /\ bound.fetcher = "defaultFetcher"
  /\ ~options.retry.retryOnErrIds.defined
  /\ options.retry.delay = 1
  /\ calls.sleep = 1
  /\ calls.fetcher = 2
  /\ callerOptions.retry.maxRetries = 2

\* C39: every attempt, retries included, arms a new timeout of timeoutMs at
\* its start, so no attempt starts with a timeout that has already fired, a
\* timeout fires only timeoutMs after the start of the attempt it belongs
\* to, and a call with retries can last longer than timeoutMs.
C39_TimeoutPerAttempt ==
  /\ [](abort.reason = "TimeoutError"
          => /\ pc # "init"
             /\ options.timeoutMs > 0
             /\ now >= abort.deadline)
  /\ [][calls'.fetcher # calls.fetcher
          => /\ abort'.reason # "TimeoutError"
             /\ abort'.deadline =
                  IF options.timeoutMs > 0 THEN now' + options.timeoutMs
                  ELSE Undefined]_vars

C39_Witness ==
  /\ pc = "done"
  /\ result.state = "ok"
  /\ options.timeoutMs = 2
  /\ bound.fetcher = "defaultFetcher"
  /\ failed["timeout"] = 1
  /\ calls.fetcher = 2
  /\ abort.reason = "none"
  /\ now - callStart > options.timeoutMs

\* in this step getText() resolved and responseIsValid, if configured,
\* returned true
BodyAccepted ==
  /\ pc = "readingBody"
  /\ seen'.text \in BodyTexts
  /\ options.responseIsValid \in {"absent", "valid"}

\* C36: a configured onResponse is invoked exactly once in each attempt in
\* which the transport resolved, the body text was read and responseIsValid
\* (if configured) returned true, whatever the HTTP status, and in no other
\* attempt.
C36_OnResponsePerAttempt ==
  [][calls'.onResponse - calls.onResponse =
       IF BodyAccepted /\ options.onResponse # "absent" THEN 1 ELSE 0]_vars

C36_Witness ==
  /\ ResolvedErr
  /\ result.error.id = "request_error"
  /\ result.error.status = 500
  /\ calls.fetcher = 2
  /\ calls.onResponse = 2
  /\ options.responseIsValid = "valid"

SameEchoedFields(e1, e2) ==
  /\ e1.url = e2.url
  /\ e1.method = e2.method
  /\ e1.retryAttempt = e2.retryAttempt

\* C38 as stated: the error in the context given to retry.condition and
\* retry.onRetry carries the echoed request fields and the retryAttempt of
\* the finalized error of that attempt, the one that onError and the caller
\* receive when the attempt is the last.
C38_ContextErrorFinalized ==
  /\ (ResolvedErr /\ lastCondition = "false")
       => SameEchoedFields(ctx.condition.error, result.error)
  /\ calls.condition > 0
       => SameEchoedFields(ctx.condition.error,
                           FinalizeError([options EXCEPT
                             !.retry.maxRetries =
                               MaxAttempts(options) - (calls.condition - 1)],
                             ctx.condition.error))
  /\ calls.onRetry > 0 => ctx.onRetry.error.url # "?"

\* C35 as stated: the fetcher is invoked with the options bundle as
\* onRequest left it, whatever onRequest did to it: headers it set and
\* fields it reassigned.
C35_TransportGetsFetchOptions ==
  calls.fetcher > 0 => request.sent = request.fetchOptions

\* C40: when every transport invocation, body read and retry sleep settles
\* and every callback returns, a call with maxRetries = N resolves to a
\* Result after at most N + 1 attempts, for every retryOnErrIds set and
\* every condition predicate: each re-attempt needs a remaining count > 0
\* and runs with the count decremented by one.
C40_Termination ==
  /\ <>(pc = "done" /\ result.state \in {"ok", "err"})
  /\ [](/\ AttemptsStarted <= callerOptions.retry.maxRetries + 1
        /\ pc = "sleeping" => now >= pending.wakeAt)
  /\ [][(pc = "sleeping" /\ pc' # "sleeping")
          => /\ options.retry.maxRetries > 0
             /\ options'.retry.maxRetries = options.retry.maxRetries - 1]_vars

C40_Witness ==
  /\ ResolvedErr
  /\ options.retry.retryOnErrIds.ids = ErrorIds
  /\ callerOptions.retry.maxRetries = 2
  /\ options.retry.maxRetries = 0
  /\ AttemptsStarted = 3
  /\ failed["invalid_json"] = 1
  /\ failed["response_validation_error"] = 1
  /\ failed["network_or_cors_error"] = 1

====
